---- MODULE Spec2Model ----
(***************************************************************************)
(* Server-side odds cache of the sports-betting beta platform.             *)
(*                                                                         *)
(* The model follows beta_platform_ml_integrated.py (SERVER_CACHE with     *)
(* data, predictions and last_updated) and beta_platform_server_cache.py   *)
(* (SERVER_ODDS_CACHE, the same loop without predictions, plus             *)
(* get_cached_odds).  Three execution contexts exist:                      *)
(*   - the startup handler (event-loop thread), which loads the models,    *)
(*     starts the daemon thread and then runs its own fetch loop;          *)
(*   - the daemon thread running the "while True" refresh loop;            *)
(*   - request handlers, which run one at a time on the event loop after   *)
(*     the startup handler has returned, interleaved with the daemon       *)
(*     thread.                                                             *)
(* datetime.now() is modelled as a clock that is strictly larger at every  *)
(* read (the assumption most favourable to timestamp ordering); an entry   *)
(* dict is therefore identified by its last_updated value.  A fetch and    *)
(* the evaluation of the dict literal that follows touch only the thread's *)
(* locals and the clock and form one step; the assignment into the cache   *)
(* is a separate step.                                                     *)
(***************************************************************************)
EXTENDS Integers, Sequences, FiniteSets, TLC

\* ------------------------------------------------------------------ bounds
\* number of passes of the daemon thread's "while True" loop that are explored
MaxCycles == 2

\* calls of a request-time cache function that are followed
MaxCalls == 3

\* bets stored per ledger that are followed
MaxBets == 2

\* add_bet requests that await their bodies at the same time
MaxPending == 2

\* --------------------------------------------------------- program constants
\* Python None (initial last_updated, and prediction fields before a model ran)
None == -1

\* the loop order "for sport in [...]"
SportOrder == <<"nfl", "nba", "mlb", "ncaaf">>

Sports == {SportOrder[k] : k \in 1..Len(SportOrder)}

\* a key nobody tracks, used by request handlers
UntrackedKeys == {"nhl"}

\* sport_map of get_cached_odds: upstream sport key -> cache key
sport_map ==
    [k \in {"americanfootball_nfl", "basketball_nba", "baseball_mlb",
            "americanfootball_ncaaf"} |->
        CASE k = "americanfootball_nfl" -> "nfl"
          [] k = "basketball_nba" -> "nba"
          [] k = "baseball_mlb" -> "mlb"
          [] k = "americanfootball_ncaaf" -> "ncaaf"]

\* the empty dict {} used as a .get default
EmptyDict == <<>>

\* dict.get(key, default)
DictGet(d, k, default) == IF k \in DOMAIN d THEN d[k] ELSE default

\* d[key]: raises KeyError when the key is absent
DictIndexRaises(d, k) == k \notin DOMAIN d

\* ------------------------------------------------------------ upstream data
\* one game object of the upstream JSON array
Game(id) == [id |-> id]

\* the response bodies explored: no games, or one game
Payloads == {<<>>, <<Game("g1")>>}

\* what requests.get can do: return a response (status, json) or raise
Outcomes ==
    [kind : {"response"}, status : {200}, json : Payloads]
    \cup [kind : {"response"}, status : {500}, json : {<<>>}]
    \cup [kind : {"timeout", "network_error"}, status : {0}, json : {<<>>}]

\* a fetch "failed": timeout, network error or non-200 status
Failed(o) == o.kind # "response" \/ o.status # 200

\* fetch_odds_from_api: the list handed back to the caller
fetch_odds_from_api(o) ==
    IF o.kind = "response"
    THEN IF o.status = 200 THEN o.json ELSE <<>>
    ELSE <<>>

\* ------------------------------------------------------------------- state
VARIABLES
    SERVER_CACHE,   \* sport -> entry dict (data, predictions, last_updated)
    ML_MODELS,      \* which parts of ML_MODELS["nfl"] are loaded
    now,            \* value of the last datetime.now() read
    fetchCount,     \* sport -> number of requests.get calls made for it
    startup,        \* the startup handler: pc and locals
    bg,             \* the daemon refresh thread: pc and locals; attempted and
                    \* failed record the sports tried and whether a fetch
                    \* failed in the current pass
    req,            \* the request being handled: pc and locals
    fa,             \* a call of NFLFeatureAdapter: inputs and what it returned
    rt,             \* beta_platform_old.py: odds_cache, cache_timestamp and a
                    \* call of get_cached_odds
    rn,             \* track1_render.py: odds_cache and a call of fetch_real_odds
    web,            \* beta_platform_old.py: users_db, sessions, user_bets,
                    \* user_emails and the place-bet request awaiting its body
    bp              \* beta_platform.py: beta_users and the add_bet requests
                    \* awaiting their bodies

vars ==
    <<SERVER_CACHE, ML_MODELS, now, fetchCount, startup, bg, req, fa, rt, rn, web, bp>>

\* the state of the server-side cache program
cacheVars == <<SERVER_CACHE, ML_MODELS, now, fetchCount, startup, bg, req>>

\* no adapter call is made (the cache model treats the trained model and its
\* adapter as a black box)
FaOff ==
    [pc |-> "off", mode |-> "none", game |-> <<>>, odds |-> <<>>, games |-> <<>>,
     res |-> [raised |-> FALSE, value |-> <<>>], prev |-> <<>>, rows |-> <<>>]

\* the other variants are not running
RtOff ==
    [pc |-> "off", key |-> "", sport |-> "none", odds_cache |-> <<>>,
     cache_timestamp |-> <<>>, now |-> 0, calls |-> 0, requests |-> 0,
     ret |-> [origin |-> "none", value |-> <<>>]]

RnOff ==
    [pc |-> "off", key |-> "", data |-> <<>>, timestamp |-> 0, now |-> 0,
     current_time |-> 0, offseason |-> FALSE,
     sports_data |-> [s \in {"nfl", "nba", "ncaaf", "mlb"} |-> <<>>],
     i |-> 1, calls |-> 0, requests |-> 0, ret |-> [origin |-> "none", value |-> <<>>]]

WebOff ==
    [pc |-> "off", users_db |-> <<>>, sessions |-> <<>>, user_bets |-> <<>>,
     user_emails |-> <<>>, pending |-> <<>>,
     last |-> [op |-> "none", status |-> 0, username |-> "", password |-> "",
               code |-> "", cookie |-> <<>>]]

BpOff ==
    [pc |-> "off", beta_users |-> <<>>, pending |-> <<>>,
     last |-> [op |-> "none", status |-> 0, code |-> "", bet_id |-> 0, waiting |-> 0]]

\* number of upstream API calls made so far
ApiCalls ==
    fetchCount["nfl"] + fetchCount["nba"] + fetchCount["mlb"] + fetchCount["ncaaf"]

\* the entries the module-level dict literal installs
InitialEntry == [data |-> <<>>, predictions |-> EmptyDict, last_updated |-> None]

IdleReq ==
    [pc |-> "idle", op |-> "none", key |-> "none", cache |-> EmptyDict,
     games |-> <<>>, gamesFrom |-> None, predictions |-> EmptyDict,
     predsFrom |-> None, stamp |-> None, raised |-> FALSE, result |-> <<>>]

Init ==
    /\ SERVER_CACHE = [s \in Sports |-> InitialEntry]
    /\ ML_MODELS = [spread |-> FALSE, adapter |-> FALSE]
    /\ now = 0
    /\ fetchCount = [s \in Sports |-> 0]
    /\ startup = [pc |-> "load", i |-> 1, ok |-> FALSE, entry |-> InitialEntry]
    /\ bg = [pc |-> "not_started", i |-> 1, cycle |-> 0, ok |-> FALSE,
             entry |-> InitialEntry, attempted |-> <<>>, failed |-> FALSE]
    /\ req = IdleReq
    /\ fa = FaOff
    /\ rt = RtOff
    /\ rn = RnOff
    /\ web = WebOff
    /\ bp = BpOff

\* ------------------------------------------------------------- predictions
\* predict_nfl_game: the default dict when the model or the adapter is
\* missing, the model's answer otherwise (the trained model is a black box)
predict_nfl_game(game, models) ==
    IF ~models.spread \/ ~models.adapter
    THEN [spread |-> None, ml_edge |-> FALSE]
    ELSE [spread |-> game.id, ml_edge |-> TRUE]

\* variant of the loop that runs for every sport
BuildPredictionsAnySport(sport, data, models) ==
    IF models.spread
    THEN [g \in {data[k].id : k \in 1..Len(data)} |->
            predict_nfl_game(
                data[CHOOSE k \in 1..Len(data) :
                        /\ data[k].id = g
                        /\ \A j \in 1..Len(data) : data[j].id = g => j <= k],
                models)]
    ELSE EmptyDict

\* the loop "for game in data: predictions[game.get('id','')] = predict(game)",
\* run only for nfl and only when the spread model is loaded
BuildPredictions(sport, data, models) ==
    IF sport = "nfl" /\ models.spread
    THEN [g \in {data[k].id : k \in 1..Len(data)} |->
            predict_nfl_game(
                data[CHOOSE k \in 1..Len(data) :
                        /\ data[k].id = g
                        /\ \A j \in 1..Len(data) : data[j].id = g => j <= k],
                models)]
    ELSE EmptyDict

\* the dict literal {"data": ..., "predictions": ..., "last_updated": datetime.now()}
NewEntry(data, predictions, t) ==
    [data |-> data, predictions |-> predictions, last_updated |-> t]

\* -------------------------------------------------------- startup handler
\* load_ml_models: nothing, the spread model only (adapter import failed), or both
LoadMlModels ==
    /\ startup.pc = "load"
    /\ \E m \in {[spread |-> FALSE, adapter |-> FALSE],
                 [spread |-> TRUE, adapter |-> FALSE],
                 [spread |-> TRUE, adapter |-> TRUE]} : ML_MODELS' = m
    /\ startup' = [startup EXCEPT !.pc = "spawn"]
    /\ UNCHANGED <<web, bp, fa, rt, rn, SERVER_CACHE, now, fetchCount, bg, req>>

\* cache_thread = threading.Thread(target=..., daemon=True); cache_thread.start()
StartThread ==
    /\ startup.pc = "spawn"
    /\ startup' = [startup EXCEPT !.pc = "fetch"]
    /\ bg' = [bg EXCEPT !.pc = "fetch", !.cycle = 1]
    /\ UNCHANGED <<web, bp, fa, rt, rn, SERVER_CACHE, ML_MODELS, now, fetchCount, req>>

\* data = fetch_odds_from_api(sport); predictions = {...}; then the dict
\* literal {"data": data, ..., "last_updated": datetime.now()} is evaluated
\* (the clock is read here, before the assignment)
StartupFetch(o) ==
    /\ startup.pc = "fetch"
    /\ LET sport == SportOrder[startup.i]
           data == fetch_odds_from_api(o)
           predictions == BuildPredictions(sport, data, ML_MODELS)
       IN /\ fetchCount' = [fetchCount EXCEPT ![sport] = @ + 1]
          /\ now' = now + 1
          /\ startup' = [startup EXCEPT !.pc = "store", !.ok = ~Failed(o),
                            !.entry = NewEntry(data, predictions, now + 1)]
    /\ UNCHANGED <<web, bp, fa, rt, rn, SERVER_CACHE, ML_MODELS, bg, req>>

\* where the for loop goes after the sport at position i (the locals of the
\* finished iteration are dead)
StartupAfterSport(st) ==
    IF st.i < Len(SportOrder)
    THEN [st EXCEPT !.pc = "fetch", !.i = @ + 1, !.ok = FALSE, !.entry = InitialEntry]
    ELSE [st EXCEPT !.pc = "done", !.ok = FALSE, !.entry = InitialEntry]

\* variant of the startup assignment that keeps the old entry when the fetch
\* returned no games
StartupStoreUnlessEmpty ==
    /\ startup.pc = "store"
    /\ SERVER_CACHE' = IF startup.entry.data = <<>>
                       THEN SERVER_CACHE
                       ELSE [SERVER_CACHE EXCEPT ![SportOrder[startup.i]] = startup.entry]
    /\ startup' = StartupAfterSport(startup)
    /\ UNCHANGED <<web, bp, fa, rt, rn, ML_MODELS, now, fetchCount, bg, req>>

\* SERVER_CACHE[sport] = <the dict>; time.sleep(1); next sport or return
StartupStore ==
    /\ startup.pc = "store"
    /\ SERVER_CACHE' = [SERVER_CACHE EXCEPT ![SportOrder[startup.i]] = startup.entry]
    /\ startup' = StartupAfterSport(startup)
    /\ UNCHANGED <<web, bp, fa, rt, rn, ML_MODELS, now, fetchCount, bg, req>>

\* --------------------------------------------------- daemon refresh thread
\* variant of the daemon's fetch without the try/except of fetch_odds_from_api:
\* a timeout or network error ends the thread
BgFetchUncaught(o) ==
    /\ bg.pc = "fetch"
    /\ LET sport == SportOrder[bg.i]
           new_data == fetch_odds_from_api(o)
           predictions == BuildPredictions(sport, new_data, ML_MODELS)
       IN /\ fetchCount' = [fetchCount EXCEPT ![sport] = @ + 1]
          /\ now' = IF o.kind = "response" THEN now + 1 ELSE now
          /\ bg' = IF o.kind = "response"
                   THEN [bg EXCEPT !.pc = "store", !.ok = ~Failed(o),
                            !.entry = NewEntry(new_data, predictions, now + 1),
                            !.attempted = Append(@, sport),
                            !.failed = @ \/ Failed(o)]
                   ELSE [bg EXCEPT !.pc = "dead", !.attempted = Append(@, sport),
                            !.failed = TRUE]
    /\ UNCHANGED <<web, bp, fa, rt, rn, SERVER_CACHE, ML_MODELS, startup, req>>

\* new_data = fetch_odds_from_api(sport); predictions = {...}; then the dict
\* literal {"data": new_data, ..., "last_updated": datetime.now()} is evaluated
\* (the clock is read here, before the assignment)
BgFetch(o) ==
    /\ bg.pc = "fetch"
    /\ LET sport == SportOrder[bg.i]
           new_data == fetch_odds_from_api(o)
           predictions == BuildPredictions(sport, new_data, ML_MODELS)
       IN /\ fetchCount' = [fetchCount EXCEPT ![sport] = @ + 1]
          /\ now' = now + 1
          /\ bg' = [bg EXCEPT !.pc = "store", !.ok = ~Failed(o),
                       !.entry = NewEntry(new_data, predictions, now + 1),
                       !.attempted = Append(@, sport),
                       !.failed = @ \/ Failed(o)]
    /\ UNCHANGED <<web, bp, fa, rt, rn, SERVER_CACHE, ML_MODELS, startup, req>>

\* where the for loop goes after the sport at position i (the locals of the
\* finished iteration are dead)
BgAfterSport(b) ==
    IF b.i < Len(SportOrder)
    THEN [b EXCEPT !.pc = "fetch", !.i = @ + 1, !.ok = FALSE, !.entry = InitialEntry]
    ELSE [b EXCEPT !.pc = "wait", !.ok = FALSE, !.entry = InitialEntry]

\* SERVER_CACHE[sport] = <the dict>; time.sleep(2); next sport or the wait
BgStore ==
    /\ bg.pc = "store"
    /\ SERVER_CACHE' = [SERVER_CACHE EXCEPT ![SportOrder[bg.i]] = bg.entry]
    /\ bg' = BgAfterSport(bg)
    /\ UNCHANGED <<web, bp, fa, rt, rn, ML_MODELS, now, fetchCount, startup, req>>

\* time.sleep(CACHE_UPDATE_INTERVAL * 60) is over: next pass of "while True".
\* The wait lasts 1800 s; the startup loop (four fetches with a 10 s timeout
\* and four 1 s sleeps) has returned by then.
BgWait ==
    /\ bg.pc = "wait"
    /\ bg.cycle < MaxCycles
    /\ startup.pc = "done"
    /\ bg' = [bg EXCEPT !.pc = "fetch", !.i = 1, !.cycle = @ + 1, !.attempted = <<>>,
                 !.failed = FALSE]
    /\ UNCHANGED <<web, bp, fa, rt, rn, SERVER_CACHE, ML_MODELS, now, fetchCount, startup, req>>

\* -------------------------------------------------------- request handlers
\* Requests are served only after the startup handler has returned, one at a
\* time (the handlers are coroutines without await points).
Serving == startup.pc = "done" /\ req.pc = "idle"

\* keys a caller passes to get_cached_odds: an upstream key, a cache key and
\* an untracked one
GetKeys == {"americanfootball_nfl", "nba"} \cup UntrackedKeys

\* sports asked for on /dashboard/{sport}
DashKeys == {"nfl", "nba"} \cup UntrackedKeys

\* variant of get_cached_odds that indexes the cache, SERVER_ODDS_CACHE[cache_key]
get_cached_odds_indexing(cache, sport) ==
    LET cache_key == DictGet(sport_map, sport, sport)
    IN IF DictIndexRaises(cache, cache_key)
       THEN [raised |-> TRUE, value |-> <<>>]
       ELSE [raised |-> FALSE, value |-> cache[cache_key].data]

\* get_cached_odds(sport): cache_key = sport_map.get(sport, sport);
\* cache = SERVER_ODDS_CACHE.get(cache_key, {}); return cache.get("data", [])
get_cached_odds(cache, sport) ==
    LET cache_key == DictGet(sport_map, sport, sport)
        entry == DictGet(cache, cache_key, EmptyDict)
    IN [raised |-> FALSE, value |-> DictGet(entry, "data", <<>>)]

\* variant of the call that reads through to the upstream API when the
\* cached list is empty
GetCachedOddsReadThrough(k) ==
    /\ Serving
    /\ LET r == get_cached_odds(SERVER_CACHE, k)
           cache_key == DictGet(sport_map, k, k)
       IN /\ req' = [IdleReq EXCEPT !.pc = "respond", !.op = "get_cached_odds", !.key = k,
                        !.raised = r.raised, !.result = r.value]
          /\ fetchCount' = IF r.value = <<>> /\ cache_key \in Sports
                           THEN [fetchCount EXCEPT ![cache_key] = @ + 1]
                           ELSE fetchCount
    /\ UNCHANGED <<web, bp, fa, rt, rn, SERVER_CACHE, ML_MODELS, now, startup, bg>>

\* a caller (the dashboard of the server-cached variant) calls get_cached_odds
GetCachedOdds(k) ==
    /\ Serving
    /\ LET r == get_cached_odds(SERVER_CACHE, k)
       IN req' = [IdleReq EXCEPT !.pc = "respond", !.op = "get_cached_odds", !.key = k,
                     !.raised = r.raised, !.result = r.value]
    /\ UNCHANGED <<web, bp, fa, rt, rn, SERVER_CACHE, ML_MODELS, now, fetchCount, startup, bg>>

\* dashboard (ML variant): cache = SERVER_CACHE.get(sport, {})
DashboardReadCache(k) ==
    /\ Serving
    /\ req' = [IdleReq EXCEPT !.pc = "games", !.op = "dashboard", !.key = k,
                  !.cache = DictGet(SERVER_CACHE, k, EmptyDict)]
    /\ UNCHANGED <<web, bp, fa, rt, rn, SERVER_CACHE, ML_MODELS, now, fetchCount, startup, bg>>

\* the dict the handler takes "data" from: its local reference
DashboardGamesSource(r) == r.cache

\* variant that looks the sport up in the cache a second time
DashboardPredictionsSourceFresh(r) == DictGet(SERVER_CACHE, r.key, EmptyDict)

\* the dict the handler takes "predictions" from: its local reference
DashboardPredictionsSource(r) == r.cache

\* dashboard: games = cache.get("data", [])
DashboardReadGames ==
    /\ req.pc = "games"
    /\ LET src == DashboardGamesSource(req)
       IN req' = [req EXCEPT !.pc = "predictions",
                     !.games = DictGet(src, "data", <<>>),
                     !.gamesFrom = DictGet(src, "last_updated", None)]
    /\ UNCHANGED <<web, bp, fa, rt, rn, SERVER_CACHE, ML_MODELS, now, fetchCount, startup, bg>>

\* dashboard: predictions = cache.get("predictions", {}); the page is rendered
\* from games and predictions
DashboardReadPredictions ==
    /\ req.pc = "predictions"
    /\ LET src == DashboardPredictionsSource(req)
       IN req' = [req EXCEPT !.pc = "respond",
                     !.predictions = DictGet(src, "predictions", EmptyDict),
                     !.predsFrom = DictGet(src, "last_updated", None)]
    /\ UNCHANGED <<web, bp, fa, rt, rn, SERVER_CACHE, ML_MODELS, now, fetchCount, startup, bg>>

\* sports asked for on /dashboard/{sport} of the server-cached variant
ServerDashKeys == {"nfl"} \cup UntrackedKeys

\* the key the server-cached dashboard passes to get_cached_odds for the
\* sport of its URL: americanfootball_ for nfl and ncaaf, basketball_ for
\* nba, baseball_ for anything else
DashboardOddsKey(sport) ==
    CASE sport = "nfl" -> "americanfootball_nfl"
      [] sport = "ncaaf" -> "americanfootball_ncaaf"
      [] sport = "nba" -> "basketball_nba"
      [] sport = "mlb" -> "baseball_mlb"
      [] OTHER -> "baseball_other"

\* dashboard (server-cached variant): games = get_cached_odds(...); gamesFrom
\* records which entry the list was taken from
ServerDashboardGetGames(k) ==
    /\ Serving
    /\ LET odds_key == DashboardOddsKey(k)
           entry == DictGet(SERVER_CACHE, DictGet(sport_map, odds_key, odds_key), EmptyDict)
       IN req' = [IdleReq EXCEPT !.pc = "render", !.op = "server_dashboard", !.key = k,
                     !.games = get_cached_odds(SERVER_CACHE, odds_key).value,
                     !.gamesFrom = DictGet(entry, "last_updated", None)]
    /\ UNCHANGED <<web, bp, fa, rt, rn, SERVER_CACHE, ML_MODELS, now, fetchCount, startup, bg>>

\* dashboard (server-cached variant): the page is rendered.  Without games
\* it shows SERVER_ODDS_CACHE.get(sport, {}).get("last_updated", "Never"),
\* with games it shows SERVER_ODDS_CACHE[sport]['last_updated']; either way
\* the cache is looked up again (no timestamp is None here)
ServerDashboardRender ==
    /\ req.pc = "render"
    /\ req' = [req EXCEPT !.pc = "respond",
                  !.stamp = IF req.games = <<>>
                            THEN DictGet(DictGet(SERVER_CACHE, req.key, EmptyDict),
                                         "last_updated", None)
                            ELSE SERVER_CACHE[req.key].last_updated]
    /\ UNCHANGED <<web, bp, fa, rt, rn, SERVER_CACHE, ML_MODELS, now, fetchCount, startup, bg>>

\* cache_status: for sport, cache in SERVER_CACHE.items(): games = len(data)
cache_status(cache) == [s \in DOMAIN cache |-> Len(DictGet(cache[s], "data", <<>>))]

\* GET /api/cache-status
CacheStatus ==
    /\ Serving
    /\ req' = [IdleReq EXCEPT !.pc = "respond", !.op = "cache_status",
                  !.result = cache_status(SERVER_CACHE)]
    /\ UNCHANGED <<web, bp, fa, rt, rn, SERVER_CACHE, ML_MODELS, now, fetchCount, startup, bg>>

\* the response is returned; the handler's locals are gone
Respond ==
    /\ req.pc = "respond"
    /\ req' = IdleReq
    /\ UNCHANGED <<web, bp, fa, rt, rn, SERVER_CACHE, ML_MODELS, now, fetchCount, startup, bg>>

Next ==
    \/ LoadMlModels
    \/ StartThread
    \/ \E o \in Outcomes : StartupFetch(o)
    \/ StartupStore
    \/ \E o \in Outcomes : BgFetch(o)
    \/ BgStore
    \/ BgWait
    \/ \E k \in GetKeys : GetCachedOdds(k)
    \/ \E k \in DashKeys : DashboardReadCache(k)
    \/ DashboardReadGames
    \/ DashboardReadPredictions
    \/ \E k \in ServerDashKeys : ServerDashboardGetGames(k)
    \/ ServerDashboardRender
    \/ CacheStatus
    \/ Respond

Spec == Init /\ [][Next]_vars

\* the steps of the startup handler and of the daemon thread
StartupNext ==
    LoadMlModels \/ StartThread \/ (\E o \in Outcomes : StartupFetch(o)) \/ StartupStore

BgNext == (\E o \in Outcomes : BgFetch(o)) \/ BgStore \/ BgWait

\* The refresh machinery on its own (no request arrives).  Both threads keep
\* being scheduled: requests.get returns or raises within its timeout and
\* every time.sleep ends.
RefreshNext == StartupNext \/ BgNext

FairSpec == Init /\ [][RefreshNext]_vars /\ WF_vars(StartupNext) /\ WF_vars(BgNext)

\* ================================================================ properties
\* the content of an entry a reader can see: game data and derived analysis
SameContent(e1, e2) == e1.data = e2.data /\ e1.predictions = e2.predictions

\* C1: when the fetch for sport S failed (timeout, network error, non-200),
\* the assignment that ends that iteration leaves S's data and predictions
\* as they were.
C1_FailedFetchKeepsEntry ==
    [][/\ (startup.pc = "store" /\ ~startup.ok /\ startup'.pc # "store")
          => SameContent(SERVER_CACHE'[SportOrder[startup.i]],
                         SERVER_CACHE[SportOrder[startup.i]])
       /\ (bg.pc = "store" /\ ~bg.ok /\ bg'.pc # "store")
          => SameContent(SERVER_CACHE'[SportOrder[bg.i]],
                         SERVER_CACHE[SportOrder[bg.i]])]_vars

\* C2: when the fetch for sport S returned 200 with zero games, the
\* assignment that ends that iteration leaves S's data and predictions as
\* they were (the entry is not cleared).
C2_EmptyResponseKeepsEntry ==
    [][/\ (startup.pc = "store" /\ startup.ok /\ startup.entry.data = <<>>
            /\ startup'.pc # "store")
          => SameContent(SERVER_CACHE'[SportOrder[startup.i]],
                         SERVER_CACHE[SportOrder[startup.i]])
       /\ (bg.pc = "store" /\ bg.ok /\ bg.entry.data = <<>> /\ bg'.pc # "store")
          => SameContent(SERVER_CACHE'[SportOrder[bg.i]],
                         SERVER_CACHE[SportOrder[bg.i]])]_vars

\* C3: the startup handler and the daemon thread are never both between a
\* fetch and the cache assignment that follows it.
C3_SingleWriter == ~(startup.pc = "store" /\ bg.pc = "store")

\* C4: every assignment to a sport's entry installs a last_updated greater
\* than the one it replaces.
C4_TimestampsIncrease ==
    [][\A s \in Sports :
          SERVER_CACHE'[s] # SERVER_CACHE[s]
          => SERVER_CACHE'[s].last_updated > SERVER_CACHE[s].last_updated]_vars

\* C5: when the ML dashboard renders, the games and the predictions it holds
\* were taken from one and the same entry dict.
C5_NoTornRead ==
    (req.op = "dashboard" /\ req.pc = "respond")
    => /\ req.gamesFrom = req.predsFrom
       /\ req.games = DictGet(req.cache, "data", <<>>)
       /\ req.predictions = DictGet(req.cache, "predictions", EmptyDict)

\* C5 witness: a dashboard response for a sport whose entry was replaced
\* while the handler was running
C5_Witness ==
    /\ req.op = "dashboard" /\ req.pc = "respond" /\ req.key = "nfl"
    /\ req.games # <<>>
    /\ SERVER_CACHE["nfl"].last_updated # req.gamesFrom
    /\ SERVER_CACHE["nfl"].data = <<>>

\* keys get_cached_odds is called with
AllKeys == Sports \cup DOMAIN sport_map \cup UntrackedKeys

\* C6: in every reachable cache state get_cached_odds returns without raising
\* for every key, and returns [] for untracked keys and for sports whose
\* entry has not been written yet.
C6_GetNeverRaises ==
    \A k \in AllKeys :
        LET r == get_cached_odds(SERVER_CACHE, k)
            cache_key == DictGet(sport_map, k, k)
        IN /\ ~r.raised
           /\ (cache_key \notin Sports) => r.value = <<>>
           /\ (cache_key \in Sports /\ SERVER_CACHE[cache_key].last_updated = None)
              => r.value = <<>>

\* C6 witness: one sport already holds games while another has not been
\* written yet
C6_Witness ==
    /\ SERVER_CACHE["nfl"].data # <<>>
    /\ SERVER_CACHE["ncaaf"].last_updated = None
    /\ get_cached_odds(SERVER_CACHE, "americanfootball_nfl").value # <<>>

\* C7: the number of upstream calls changes only in steps of the startup
\* handler or of the daemon thread, never in a step of a request handler.
C7_ReadsDoNotFetch ==
    [][ApiCalls' # ApiCalls => (req' = req /\ (startup' # startup \/ bg' # bg))]_vars

\* C7 witness: a get_cached_odds call answered with an empty list
C7_Witness ==
    /\ req.op = "get_cached_odds" /\ req.pc = "respond"
    /\ req.key = "nba" /\ req.result = <<>>

\* C8: when the daemon thread reaches its first inter-cycle wait, every sport
\* has been fetched exactly once since process start.
C8_FetchedOnceAtStartup ==
    (bg.pc = "wait" /\ bg.cycle = 1) => \A s \in Sports : fetchCount[s] = 1

\* C9: when the startup handler has returned, every sport's entry has been
\* written (last_updated is not None).
C9_StartupPopulates ==
    startup.pc = "done" => \A s \in Sports : SERVER_CACHE[s].last_updated # None

\* C9 witness: the startup handler has returned, all its fetches came back
\* empty and the daemon thread has not assigned anything yet
C9_Witness ==
    /\ startup.pc = "done"
    /\ bg.cycle = 1 /\ bg.i = 1
    /\ \A s \in Sports : SERVER_CACHE[s].data = <<>>

\* C10: a pass of the daemon loop tries the sports in the order nfl, nba,
\* mlb, ncaaf whatever the fetches return, always reaches the inter-cycle
\* wait, and the next pass starts after the wait.
C10_CycleCompletes ==
    /\ [](bg.pc = "wait" => bg.attempted = SportOrder)
    /\ [](bg.pc \in {"fetch", "store"}
          => bg.attempted = SubSeq(SportOrder, 1, Len(bg.attempted)))
    /\ [][(bg.pc = "wait" /\ bg'.pc # "wait")
          => (bg'.pc = "fetch" /\ bg'.i = 1 /\ bg'.cycle = bg.cycle + 1)]_vars
    /\ (bg.pc \in {"fetch", "store"}) ~> (bg.pc = "wait")
    /\ (bg.pc = "wait" /\ bg.cycle < MaxCycles) ~> (bg.pc = "fetch")

\* C10 witness: the second pass reached the wait although a fetch failed in it
C10_Witness == bg.pc = "wait" /\ bg.cycle = 2 /\ bg.failed

\* C24: the games a server-cached dashboard response shows and the
\* timestamp it shows were read from the same cache entry.
C24_GamesAndTimestampSameEntry ==
    (req.op = "server_dashboard" /\ req.pc = "respond" /\ req.games # <<>>)
    => req.stamp = req.gamesFrom

\* C25: in every entry of SERVER_CACHE the keys of predictions are ids of
\* games in data, and only the nfl entry has predictions.
C25_EntryConsistent ==
    \A s \in Sports :
        /\ DOMAIN SERVER_CACHE[s].predictions
              \subseteq {SERVER_CACHE[s].data[k].id : k \in 1..Len(SERVER_CACHE[s].data)}
        /\ s # "nfl" => SERVER_CACHE[s].predictions = EmptyDict

\* C25 witness: the nfl entry holds predictions while another sport holds games
C25_Witness ==
    /\ SERVER_CACHE["nfl"].predictions # EmptyDict
    /\ \E s \in Sports \ {"nfl"} : SERVER_CACHE[s].data # <<>>

(***************************************************************************)
(* NFLFeatureAdapter (nfl_feature_adapter.py).                             *)
(*                                                                         *)
(* Numbers are written in thousandths (350.5 is 350500).  The vector is a  *)
(* numpy float32 array: an entry is the float32 nearest to the Python      *)
(* float it was built from.  For the magnitudes used here (below 8192)     *)
(* distinct thousandths have distinct float32 neighbours, and a value is   *)
(* a float32 exactly when it is a multiple of 1/8.                         *)
(***************************************************************************)

\* ------------------------------------------------------------- float32
\* np.float32(x) for x = n/1000
Float32(n) == [milli |-> n, exact |-> n % 125 = 0]

\* "f == x" in Python for a float32 f and x = n/1000
Float32Eq(f, n) == f.exact /\ f.milli = n

\* np.array(features, dtype=np.float32)
ToFloat32Array(xs) == [i \in 1..Len(xs) |-> Float32(xs[i])]

\* ------------------------------------------------------ the constant bands
OffensiveBand ==
    <<350500, 340200, 24500, 22300, 245300, 235100, 105200, 105100, 420, 390,
      550, 520, 31200, 28800, 1200, 1500, 2100, 2800, 6200, 6800>>

\* variant with the 22 values the comment of the defensive band announces
DefensiveBand22 ==
    <<325800, 345200, 20500, 23200, 220500, 235800, 105300, 109400, 380, 410,
      480, 510, 2800, 2200, 900, 700, 600, 400, 150, 100, 0, 0>>

DefensiveBand ==
    <<325800, 345200, 20500, 23200, 220500, 235800, 105300, 109400, 380, 410,
      480, 510, 2800, 2200, 900, 700, 600, 400, 150, 100>>

RecentFormBand ==
    <<2000, 1000, 75000, 65000, 62000, 71000, 600, 400, 3000, 2000, 3000, 2000,
      2000, -1000, 0, 0>>

QbBand ==
    <<95200, 88500, 650, 620, 7500, 7100, 2500, 1800, 60, 80, 58200, 52100,
      350, 420, 120, 100, 98500, 92100, 102300, 95800>>

RbBand == <<4200, 3900, 150, 120, 2800, 2500, 25500, 22100, 18500, 16200, 15, 20>>

WrTeBand == <<2800, 2500, 50, 70, 5200, 4800>>

OlDlBand == <<680, 620, 720, 680, 420, 380, 350, 320, 2500, 2300, 220, 280>>

SpecialTeamsBand == <<850, 820, 8500, 7200, 22500, 21100, 42500, 40800>>

SituationalBand == <<500, 48500, 0, 0, 0, 500, 3000, 0, 500000, 0, 0, 0, 0, 0, 0>>

WeatherBand == <<72000, 5000, 100, 50000, 0, 1000, 0, 0>>

\* everything appended before the market band, in the order of the extends
BaselineBands ==
    OffensiveBand \o DefensiveBand \o RecentFormBand \o QbBand \o RbBand
    \o WrTeBand \o OlDlBand \o SpecialTeamsBand \o SituationalBand \o WeatherBand

\* variant of the default band with a pick'em spread
DefaultMarketBandPickEm ==
    <<0, 0, 0, 45500, 45500, 0, -150000, 130000, 55000, 52000, 0, 0>>

\* the else branch: "Default market features"
DefaultMarketBand ==
    <<-3500, -3500, 0, 45500, 45500, 0, -150000, 130000, 55000, 52000, 0, 0>>

\* the defaults of the two .get('point', ...) calls and of the else branches
DefaultSpread == -3500

DefaultTotal == 45500

\* len(FEATURE_NAMES), the length the final assert demands
feature_count == 149

\* ------------------------------------------------------------ odds lookup
\* next((m for m in markets if m['key'] == key), None): the position of the
\* first market with that key (0 for None); m['key'] raises KeyError on a
\* market without 'key' that is reached before a match
\* FEATURE_NAMES, band by band as its comments divide it
NameBands ==
    <<
      \* Offensive features (20)
      <<"home_yards_per_game", "away_yards_per_game",
        "home_points_per_game", "away_points_per_game",
        "home_pass_yards_per_game", "away_pass_yards_per_game",
        "home_rush_yards_per_game", "away_rush_yards_per_game",
        "home_third_down_pct", "away_third_down_pct", "home_red_zone_pct",
        "away_red_zone_pct", "home_time_of_possession",
        "away_time_of_possession", "home_turnovers_per_game",
        "away_turnovers_per_game", "home_sacks_allowed",
        "away_sacks_allowed", "home_penalties_per_game",
        "away_penalties_per_game">>,
      \* Defensive features (22)
      <<"home_yards_allowed_per_game", "away_yards_allowed_per_game",
        "home_points_allowed_per_game", "away_points_allowed_per_game",
        "home_pass_yards_allowed", "away_pass_yards_allowed",
        "home_rush_yards_allowed", "away_rush_yards_allowed",
        "home_third_down_def_pct", "away_third_down_def_pct",
        "home_red_zone_def_pct", "away_red_zone_def_pct",
        "home_sacks_per_game", "away_sacks_per_game",
        "home_interceptions_per_game", "away_interceptions_per_game",
        "home_forced_fumbles_per_game", "away_forced_fumbles_per_game",
        "home_defensive_tds", "away_defensive_tds">>,
      \* Recent form (16)
      <<"home_last_3_wins", "away_last_3_wins", "home_last_3_points_for",
        "away_last_3_points_for", "home_last_3_points_against",
        "away_last_3_points_against", "home_momentum_score",
        "away_momentum_score", "home_last_5_ats", "away_last_5_ats",
        "home_last_5_totals", "away_last_5_totals", "home_streak",
        "away_streak", "home_rest_advantage", "away_rest_advantage">>,
      \* QB Stats (20)
      <<"home_qb_rating", "away_qb_rating", "home_qb_completion_pct",
        "away_qb_completion_pct", "home_qb_yards_per_attempt",
        "away_qb_yards_per_attempt", "home_qb_td_int_ratio",
        "away_qb_td_int_ratio", "home_qb_sack_rate", "away_qb_sack_rate",
        "home_qb_qbr", "away_qb_qbr", "home_qb_pressure_rate",
        "away_qb_pressure_rate", "home_qb_deep_ball_pct",
        "away_qb_deep_ball_pct", "home_qb_third_down_rating",
        "away_qb_third_down_rating", "home_qb_red_zone_rating",
        "away_qb_red_zone_rating">>,
      \* RB Stats (12)
      <<"home_rb_yards_per_carry", "away_rb_yards_per_carry",
        "home_rb_breakaway_runs", "away_rb_breakaway_runs",
        "home_rb_yards_after_contact", "away_rb_yards_after_contact",
        "home_rb_receiving_yards", "away_rb_receiving_yards",
        "home_rb_total_touches", "away_rb_total_touches",
        "home_rb_fumble_rate", "away_rb_fumble_rate">>,
      \* WR/TE Stats (6)
      <<"home_wr_separation", "away_wr_separation", "home_wr_drop_rate",
        "away_wr_drop_rate", "home_wr_yards_after_catch",
        "away_wr_yards_after_catch">>,
      \* OL/DL Stats (12)
      <<"home_ol_pass_block_win_rate", "away_ol_pass_block_win_rate",
        "home_ol_run_block_win_rate", "away_ol_run_block_win_rate",
        "home_dl_pass_rush_win_rate", "away_dl_pass_rush_win_rate",
        "home_dl_run_stop_rate", "away_dl_run_stop_rate",
        "home_pocket_time", "away_pocket_time", "home_hurry_rate",
        "away_hurry_rate">>,
      \* Special teams (8)
      <<"home_field_goal_pct", "away_field_goal_pct",
        "home_punt_return_avg", "away_punt_return_avg",
        "home_kick_return_avg", "away_kick_return_avg",
        "home_net_punting_avg", "away_net_punting_avg">>,
      \* Matchup/situational (15)
      <<"head_to_head_wins_home", "head_to_head_avg_total",
        "division_game", "conference_game", "primetime_game",
        "playoff_implications", "home_field_advantage", "altitude_factor",
        "travel_distance", "timezone_change", "revenge_game",
        "lookahead_spot", "sandwich_game", "rest_differential",
        "injury_report_impact">>,
      \* Weather (8)
      <<"temperature", "wind_speed", "precipitation_chance", "humidity",
        "dome_game", "field_condition", "weather_impact_passing",
        "weather_impact_total">>,
      \* Market/betting (12)
      <<"opening_spread", "current_spread", "spread_movement",
        "opening_total", "current_total", "total_movement",
        "home_moneyline", "away_moneyline", "public_bet_pct_spread",
        "public_bet_pct_total", "sharp_money_indicator",
        "reverse_line_movement">>
    >>

\* FEATURE_NAMES as the flat list it is
FEATURE_NAMES ==
    NameBands[1] \o NameBands[2] \o NameBands[3] \o NameBands[4] \o NameBands[5]
        \o NameBands[6] \o NameBands[7] \o NameBands[8] \o NameBands[9]
        \o NameBands[10] \o NameBands[11]

RECURSIVE FindMarket(_, _, _)
FindMarket(markets, key, i) ==
    IF i > Len(markets) THEN [raised |-> FALSE, idx |-> 0]
    ELSE IF DictIndexRaises(markets[i], "key") THEN [raised |-> TRUE, idx |-> 0]
    ELSE IF markets[i].key = key THEN [raised |-> FALSE, idx |-> i]
    ELSE FindMarket(markets, key, i + 1)

\* market['outcomes'][0].get('point', default) when the market was found,
\* default otherwise; ['outcomes'] and [0] raise on a missing key or an
\* empty list
MarketPoint(markets, found, default) ==
    IF found.idx = 0 THEN [raised |-> FALSE, value |-> default]
    ELSE LET m == markets[found.idx]
         IN IF DictIndexRaises(m, "outcomes") THEN [raised |-> TRUE, value |-> default]
            ELSE IF Len(m.outcomes) = 0 THEN [raised |-> TRUE, value |-> default]
            ELSE [raised |-> FALSE, value |-> DictGet(m.outcomes[1], "point", default)]

\* "odds_data and odds_data.get('bookmakers')": odds_data is an Optional,
\* <<>> for None and <<dict>> otherwise
HasBookmakers(odds) ==
    /\ odds # <<>>
    /\ Len(DictGet(odds[1], "bookmakers", <<>>)) > 0

\* variant of the market band that reads the last bookmaker
MarketBandLastBookmaker(odds) ==
    IF HasBookmakers(odds)
    THEN LET book == odds[1].bookmakers[Len(odds[1].bookmakers)]
             markets == DictGet(book, "markets", <<>>)
             spread_market == FindMarket(markets, "spreads", 1)
             total_market == FindMarket(markets, "totals", 1)
             ml_market == FindMarket(markets, "h2h", 1)
             current_spread == MarketPoint(markets, spread_market, DefaultSpread)
             current_total == MarketPoint(markets, total_market, DefaultTotal)
         IN IF spread_market.raised \/ total_market.raised \/ ml_market.raised
               \/ current_spread.raised \/ current_total.raised
            THEN [raised |-> TRUE, value |-> <<>>]
            ELSE [raised |-> FALSE,
                  value |-> <<current_spread.value, current_spread.value, 0,
                              current_total.value, current_total.value, 0,
                              -150000, 130000, 55000, 52000, 0, 0>>]
    ELSE [raised |-> FALSE, value |-> DefaultMarketBand]

\* variant of the market band that takes the defaults as opening lines and
\* reports the movement from them
MarketBandWithMovement(odds) ==
    IF HasBookmakers(odds)
    THEN LET book == odds[1].bookmakers[1]
             markets == DictGet(book, "markets", <<>>)
             spread_market == FindMarket(markets, "spreads", 1)
             total_market == FindMarket(markets, "totals", 1)
             ml_market == FindMarket(markets, "h2h", 1)
             current_spread == MarketPoint(markets, spread_market, DefaultSpread)
             current_total == MarketPoint(markets, total_market, DefaultTotal)
         IN IF spread_market.raised \/ total_market.raised \/ ml_market.raised
               \/ current_spread.raised \/ current_total.raised
            THEN [raised |-> TRUE, value |-> <<>>]
            ELSE [raised |-> FALSE,
                  value |-> <<DefaultSpread, current_spread.value,
                              current_spread.value - DefaultSpread,
                              DefaultTotal, current_total.value,
                              current_total.value - DefaultTotal,
                              -150000, 130000, 55000, 52000, 0, 0>>]
    ELSE [raised |-> FALSE, value |-> DefaultMarketBand]

\* variant of the market band with the spread and total values swapped
MarketBandSwapped(odds) ==
    IF HasBookmakers(odds)
    THEN LET book == odds[1].bookmakers[1]
             markets == DictGet(book, "markets", <<>>)
             spread_market == FindMarket(markets, "spreads", 1)
             total_market == FindMarket(markets, "totals", 1)
             ml_market == FindMarket(markets, "h2h", 1)
             current_spread == MarketPoint(markets, spread_market, DefaultSpread)
             current_total == MarketPoint(markets, total_market, DefaultTotal)
         IN IF spread_market.raised \/ total_market.raised \/ ml_market.raised
               \/ current_spread.raised \/ current_total.raised
            THEN [raised |-> TRUE, value |-> <<>>]
            ELSE [raised |-> FALSE,
                  value |-> <<current_total.value, current_total.value, 0,
                              current_spread.value, current_spread.value, 0,
                              -150000, 130000, 55000, 52000, 0, 0>>]
    ELSE [raised |-> FALSE, value |-> DefaultMarketBand]

\* the 12 values appended for the market band.  The h2h market is looked up
\* (ml_market) but the two moneyline slots are the literals -150 and 130.
MarketBand(odds) ==
    IF HasBookmakers(odds)
    THEN LET book == odds[1].bookmakers[1]
             markets == DictGet(book, "markets", <<>>)
             spread_market == FindMarket(markets, "spreads", 1)
             total_market == FindMarket(markets, "totals", 1)
             ml_market == FindMarket(markets, "h2h", 1)
             current_spread == MarketPoint(markets, spread_market, DefaultSpread)
             current_total == MarketPoint(markets, total_market, DefaultTotal)
         IN IF spread_market.raised \/ total_market.raised \/ ml_market.raised
               \/ current_spread.raised \/ current_total.raised
            THEN [raised |-> TRUE, value |-> <<>>]
            ELSE [raised |-> FALSE,
                  value |-> <<current_spread.value, current_spread.value, 0,
                              current_total.value, current_total.value, 0,
                              -150000, 130000, 55000, 52000, 0, 0>>]
    ELSE [raised |-> FALSE, value |-> DefaultMarketBand]

\* variant with the 22 defensive values its comment announces and without
\* the final length assert
extract_features_unchecked(game_data, odds_data) ==
    LET market == MarketBand(odds_data)
    IN IF market.raised THEN [raised |-> TRUE, value |-> <<>>]
       ELSE [raised |-> FALSE,
             value |-> ToFloat32Array(BaselineBands \o <<0, 0>> \o market.value)]

\* variant that derives the dome_game slot (index 130) from game_data
extract_features_reading_game(game_data, odds_data) ==
    LET market == MarketBand(odds_data)
        dome == IF "bookmakers" \in DOMAIN game_data THEN 1000 ELSE 0
        baseline == [i \in 1..Len(BaselineBands) |->
                        IF i = 131 THEN dome ELSE BaselineBands[i]]
    IN IF market.raised THEN [raised |-> TRUE, value |-> <<>>]
       ELSE [raised |-> FALSE, value |-> ToFloat32Array(baseline \o market.value)]

\* extract_features_from_game(game_data, odds_data): game_data is not read
extract_features_from_game(game_data, odds_data) ==
    LET market == MarketBand(odds_data)
    IN IF market.raised THEN [raised |-> TRUE, value |-> <<>>]
       ELSE LET feature_array == ToFloat32Array(BaselineBands \o market.value)
            IN IF Len(feature_array) = feature_count
               THEN [raised |-> FALSE, value |-> feature_array]
               ELSE [raised |-> TRUE, value |-> <<>>]

\* variant of the batch form whose loop skips the first game
extract_batch_skipping_first(games) ==
    [raised |-> FALSE,
     value |-> [i \in 1..(IF Len(games) = 0 THEN 0 ELSE Len(games) - 1) |->
                  extract_features_from_game(games[i + 1], <<>>).value]]

\* extract_batch_features: one single-argument call per game, appended in order
RECURSIVE extract_batch_features(_)
extract_batch_features(games) ==
    IF games = <<>> THEN [raised |-> FALSE, value |-> <<>>]
    ELSE LET game_features == extract_features_from_game(Head(games), <<>>)
             rest == extract_batch_features(Tail(games))
         IN IF game_features.raised \/ rest.raised
            THEN [raised |-> TRUE, value |-> <<>>]
            ELSE [raised |-> FALSE, value |-> <<game_features.value>> \o rest.value]

\* ----------------------------------------------------------------- inputs
\* point values a market may quote: -2.5 and -3 for the spread, 48.5 and
\* 47.3 for the total
SpreadPoints == {-2500, -3000}

TotalPoints == {48500, 47300}

\* shapes of a market in the upstream JSON
QuoteChoices(points) ==
    [kind : {"absent", "no_point", "no_outcomes"}, point : {0}]
    \cup [kind : {"quoted"}, point : points]

\* a spreads or totals market of the given shape; a quoted market has the
\* two outcomes of the upstream JSON, the second with the opposite point
Market(key, c) ==
    IF c.kind = "quoted"
    THEN [key |-> key,
          outcomes |-> <<[name |-> "first", point |-> c.point, price |-> -110000],
                         [name |-> "second", point |-> 0 - c.point, price |-> -110000]>>]
    ELSE IF c.kind = "no_point"
    THEN [key |-> key, outcomes |-> <<[name |-> "first", price |-> -110000]>>]
    ELSE [key |-> key, outcomes |-> <<>>]

H2hMarket ==
    [key |-> "h2h", outcomes |-> <<[name |-> "home", price |-> -200000],
                                   [name |-> "away", price |-> 170000]>>]

\* a market object without 'key'
KeylessMarket == [outcomes |-> <<>>]

\* the 'markets' list of a bookmaker
Markets(sc, tc, h2h, keyless) ==
    (IF keyless = "front" THEN <<KeylessMarket>> ELSE <<>>)
    \o (IF sc.kind # "absent" THEN <<Market("spreads", sc)>> ELSE <<>>)
    \o (IF tc.kind # "absent" THEN <<Market("totals", tc)>> ELSE <<>>)
    \o (IF h2h THEN <<H2hMarket>> ELSE <<>>)
    \o (IF keyless = "back" THEN <<KeylessMarket>> ELSE <<>>)

Bookmakers ==
    {[title |-> "DraftKings", markets |-> Markets(sc, tc, h2h, keyless)] :
        sc \in QuoteChoices(SpreadPoints), tc \in QuoteChoices(TotalPoints),
        h2h \in BOOLEAN, keyless \in {"none", "front", "back"}}

\* a bookmaker object without 'markets'
BookmakerNoMarkets == [title |-> "DraftKings"]

\* a second bookmaker, quoting other lines than any first bookmaker
SecondBookmaker ==
    [title |-> "FanDuel",
     markets |-> <<[key |-> "spreads",
                    outcomes |-> <<[name |-> "first", point |-> 7500, price |-> -110000]>>],
                   [key |-> "totals",
                    outcomes |-> <<[name |-> "first", point |-> 51500, price |-> -110000]>>]>>]

\* game objects of the upstream JSON array (also what a caller passes as
\* odds_data): without 'bookmakers', with an empty list, with one bookmaker,
\* with two
GameRecords ==
    {[id |-> "g1", home_team |-> "home", away_team |-> "away"]}
    \cup {[id |-> "g1", home_team |-> "home", away_team |-> "away", bookmakers |-> <<>>]}
    \cup {[id |-> "g1", home_team |-> "home", away_team |-> "away", bookmakers |-> <<b>>] :
            b \in Bookmakers}
    \cup {[id |-> "g1", home_team |-> "home", away_team |-> "away",
           bookmakers |-> <<BookmakerNoMarkets>>]}
    \cup {[id |-> "g1", home_team |-> "home", away_team |-> "away",
           bookmakers |-> <<b, SecondBookmaker>>] :
            b \in {bb \in Bookmakers : Len(bb.markets) <= 1}}

\* Optional[Dict]: None, or a dict
OddsOptions == {<<>>} \cup {<<g>> : g \in GameRecords}

\* the sample game of test_adapter (spread -2.5, total 48.5, one bookmaker)
\* and a game the upstream sent without bookmaker data
GameA ==
    [id |-> "g1", home_team |-> "home", away_team |-> "away",
     bookmakers |-> <<[title |-> "DraftKings",
                       markets |-> Markets([kind |-> "quoted", point |-> -2500],
                                           [kind |-> "quoted", point |-> 48500],
                                           FALSE, "none")]>>]

GameB == [id |-> "g1", home_team |-> "home", away_team |-> "away", bookmakers |-> <<>>]

\* the game lists handed to extract_batch_features
GameLists == {<<>>, <<GameA>>, <<GameB>>, <<GameA, GameB>>, <<GameB, GameA>>}

\* ---------------------------------------------------------------- actions
\* a call is pending with its arguments
FaCall(mode, game, odds, games, prev) ==
    [pc |-> "call", mode |-> mode, game |-> <<game>>, odds |-> odds, games |-> games,
     res |-> [raised |-> FALSE, value |-> <<>>], prev |-> prev, rows |-> <<>>]

\* the vector the last successful single call returned
LastVector == IF fa.pc = "returned" /\ fa.mode # "batch" /\ ~fa.res.raised
              THEN fa.res.value ELSE fa.prev

AdapterInit ==
    /\ SERVER_CACHE = [s \in Sports |-> InitialEntry]
    /\ ML_MODELS = [spread |-> TRUE, adapter |-> TRUE]
    /\ now = 0
    /\ fetchCount = [s \in Sports |-> 0]
    /\ startup = [pc |-> "load", i |-> 1, ok |-> FALSE, entry |-> InitialEntry]
    /\ bg = [pc |-> "not_started", i |-> 1, cycle |-> 0, ok |-> FALSE,
             entry |-> InitialEntry, attempted |-> <<>>, failed |-> FALSE]
    /\ req = IdleReq
    /\ \E g \in {GameA, GameB}, o \in OddsOptions :
          fa = FaCall("direct", g, o, <<>>, <<>>)
    /\ rt = RtOff
    /\ rn = RnOff
    /\ web = WebOff
    /\ bp = BpOff

\* features = adapter.extract_features_from_game(game, odds), as test_adapter
\* calls it
ExtractDirect ==
    /\ fa.pc = "call" /\ fa.mode = "direct"
    /\ fa' = [fa EXCEPT !.pc = "returned",
                 !.res = extract_features_from_game(fa.game[1], fa.odds)]
    /\ UNCHANGED <<web, bp, cacheVars, rt, rn>>

\* the odds argument predict_nfl_game passes: none
PredictOddsArgument(game) == <<>>

\* predict_nfl_game during a refresh:
\* features = ML_MODELS["nfl"]["adapter"].extract_features_from_game(game_data)
ExtractInPredict ==
    /\ fa.pc = "call" /\ fa.mode = "predict"
    /\ fa' = [fa EXCEPT !.pc = "returned",
                 !.odds = PredictOddsArgument(fa.game[1]),
                 !.res = extract_features_from_game(fa.game[1],
                                                    PredictOddsArgument(fa.game[1]))]
    /\ UNCHANGED <<web, bp, cacheVars, rt, rn>>

\* adapter.extract_batch_features(games)
ExtractBatch ==
    /\ fa.pc = "call" /\ fa.mode = "batch"
    /\ LET r == extract_batch_features(fa.games)
       IN fa' = [fa EXCEPT !.pc = "returned",
                    !.res = [raised |-> r.raised, value |-> <<>>],
                    !.rows = r.value]
    /\ UNCHANGED <<web, bp, cacheVars, rt, rn>>

\* the next call and its arguments; a caller with a game at hand passes it
\* as game_data and as odds_data, as test_adapter does
NextDirectCall(o) ==
    /\ fa.pc = "returned"
    /\ fa' = FaCall("direct", IF o = <<>> THEN GameB ELSE o[1], o, <<>>, LastVector)
    /\ UNCHANGED <<web, bp, cacheVars, rt, rn>>

NextPredictCall(g) ==
    /\ fa.pc = "returned"
    /\ fa' = FaCall("predict", g, <<>>, <<>>, LastVector)
    /\ UNCHANGED <<web, bp, cacheVars, rt, rn>>

NextBatchCall(gs) ==
    /\ fa.pc = "returned"
    /\ fa' = FaCall("batch", GameB, <<>>, gs, LastVector)
    /\ UNCHANGED <<web, bp, cacheVars, rt, rn>>

AdapterNext ==
    \/ ExtractDirect
    \/ ExtractInPredict
    \/ ExtractBatch
    \/ \E o \in OddsOptions : NextDirectCall(o)
    \/ \E g \in GameRecords : NextPredictCall(g)
    \/ \E gs \in GameLists : NextBatchCall(gs)

AdapterSpec == AdapterInit /\ [][AdapterNext]_vars

\* ------------------------------------------------- adapter: properties
\* features[i] with Python's 0-based index
Slot(v, i) == v[i + 1]

\* a single call (direct or from predict_nfl_game) has returned a vector
Returned == fa.pc = "returned" /\ fa.mode # "batch" /\ ~fa.res.raised

\* the odds record has a first bookmaker
FirstBookmaker(odds) ==
    /\ odds # <<>>
    /\ "bookmakers" \in DOMAIN odds[1]
    /\ odds[1].bookmakers # <<>>

\* positions of the markets with the given key in the first bookmaker
KeyPositions(odds, key) ==
    IF FirstBookmaker(odds) /\ "markets" \in DOMAIN odds[1].bookmakers[1]
    THEN LET ms == odds[1].bookmakers[1].markets
         IN {i \in 1..Len(ms) : "key" \in DOMAIN ms[i] /\ ms[i].key = key}
    ELSE {}

\* the first bookmaker has a market with that key
HasMarket(odds, key) == KeyPositions(odds, key) # {}

\* the first market with that key in the first bookmaker
FirstMarket(odds, key) ==
    odds[1].bookmakers[1].markets[
        CHOOSE i \in KeyPositions(odds, key) : \A j \in KeyPositions(odds, key) : i <= j]

\* the first bookmaker has such a market and its first outcome carries a point
HasQuote(odds, key) ==
    /\ HasMarket(odds, key)
    /\ Len(FirstMarket(odds, key).outcomes) > 0
    /\ "point" \in DOMAIN FirstMarket(odds, key).outcomes[1]

QuotedPoint(odds, key) == FirstMarket(odds, key).outcomes[1].point

\* C12: a vector that extract_features_from_game returns has exactly 149 entries.
C12_Length149 == Returned => Len(fa.res.value) = 149

\* C12 witness: a vector was returned for odds quoting a spread and a total
C12_Witness ==
    /\ Returned /\ fa.mode = "direct"
    /\ HasQuote(fa.odds, "spreads") /\ HasQuote(fa.odds, "totals")

\* C13: a direct call returns a vector (does not raise) whatever is missing
\* from the odds record.
C13_NeverRaisesOnMalformed ==
    (fa.pc = "returned" /\ fa.mode = "direct") => ~fa.res.raised

\* C14 (as claimed): with a quoted spread and total, the current-spread and
\* current-total slots compare equal to the quoted points.
C14_RoundTripExact ==
    (Returned /\ fa.mode = "direct"
        /\ HasQuote(fa.odds, "spreads") /\ HasQuote(fa.odds, "totals"))
    => /\ Float32Eq(Slot(fa.res.value, 138), QuotedPoint(fa.odds, "spreads"))
       /\ Float32Eq(Slot(fa.res.value, 141), QuotedPoint(fa.odds, "totals"))

\* C14 (amended): with a quoted spread and total, the current-spread and
\* current-total slots hold the float32 nearest to the quoted points; they
\* compare equal to the points when these are multiples of 1/8.
C14_RoundTripFloat32 ==
    (Returned /\ fa.mode = "direct"
        /\ HasQuote(fa.odds, "spreads") /\ HasQuote(fa.odds, "totals"))
    => LET s == QuotedPoint(fa.odds, "spreads")
           t == QuotedPoint(fa.odds, "totals")
       IN /\ Slot(fa.res.value, 138).milli = s
          /\ Slot(fa.res.value, 141).milli = t
          /\ (s % 125 = 0) => Float32Eq(Slot(fa.res.value, 138), s)
          /\ (t % 125 = 0) => Float32Eq(Slot(fa.res.value, 141), t)

\* C14 witness: a vector returned for spread -2.5 and total 47.3
C14_Witness ==
    /\ Returned /\ fa.mode = "direct"
    /\ HasQuote(fa.odds, "spreads") /\ HasQuote(fa.odds, "totals")
    /\ QuotedPoint(fa.odds, "spreads") = -2500
    /\ QuotedPoint(fa.odds, "totals") = 47300

\* C15: without live odds the market band is [-3.5, -3.5, 0, 45.5, 45.5, 0,
\* -150, 130, 55, 52, 0, 0]; with a first bookmaker that lacks the spreads
\* (totals) market the spread (total) slots are -3.5 (45.5).
C15_DefaultMarketBand ==
    Returned =>
       /\ ~FirstBookmaker(fa.odds)
          => \A i \in 1..12 :
                Float32Eq(Slot(fa.res.value, 136 + i),
                          <<-3500, -3500, 0, 45500, 45500, 0,
                            -150000, 130000, 55000, 52000, 0, 0>>[i])
       /\ (FirstBookmaker(fa.odds) /\ ~HasMarket(fa.odds, "spreads"))
          => /\ Float32Eq(Slot(fa.res.value, 137), -3500)
             /\ Float32Eq(Slot(fa.res.value, 138), -3500)
       /\ (FirstBookmaker(fa.odds) /\ ~HasMarket(fa.odds, "totals"))
          => /\ Float32Eq(Slot(fa.res.value, 140), 45500)
             /\ Float32Eq(Slot(fa.res.value, 141), 45500)

\* C15 witness: a first bookmaker quoting a total but no spread
C15_Witness ==
    /\ Returned /\ fa.mode = "direct"
    /\ FirstBookmaker(fa.odds)
    /\ ~HasMarket(fa.odds, "spreads")
    /\ HasQuote(fa.odds, "totals")

\* C16: when the first bookmaker carries an h2h market, the home and away
\* moneyline slots hold its prices.
C16_MoneylineFromOdds ==
    (Returned /\ HasMarket(fa.odds, "h2h"))
    => /\ Slot(fa.res.value, 143).milli = FirstMarket(fa.odds, "h2h").outcomes[1].price
       /\ Slot(fa.res.value, 144).milli = FirstMarket(fa.odds, "h2h").outcomes[2].price

\* C17: the batch form returns one row per game, in input order, each equal
\* to what the single-argument call returns for that game.
C17_BatchMatchesSingle ==
    (fa.pc = "returned" /\ fa.mode = "batch" /\ ~fa.res.raised)
    => /\ Len(fa.rows) = Len(fa.games)
       /\ \A i \in 1..Len(fa.games) :
             LET single == extract_features_from_game(fa.games[i], <<>>)
             IN ~single.raised /\ fa.rows[i] = single.value

\* C17 witness: a batch of two different games has returned
C17_Witness ==
    /\ fa.pc = "returned" /\ fa.mode = "batch"
    /\ Len(fa.games) = 2 /\ fa.games[1] # fa.games[2]
    /\ Len(fa.rows) = 2

\* C18: the vector built during a refresh for the game quoting spread -2.5
\* and total 48.5 has a market band starting [-2.5, -2.5, 0, 48.5, 48.5, 0],
\* and so has its row in the batch form.
C18_RefreshCarriesLines ==
    /\ (Returned /\ fa.mode = "predict" /\ fa.game[1] = GameA)
       => \A i \in 1..6 :
             Float32Eq(Slot(fa.res.value, 136 + i),
                       <<-2500, -2500, 0, 48500, 48500, 0>>[i])
    /\ (fa.pc = "returned" /\ fa.mode = "batch" /\ ~fa.res.raised)
       => \A k \in 1..Len(fa.rows) :
             fa.games[k] = GameA
             => \A i \in 1..6 :
                   Float32Eq(Slot(fa.rows[k], 136 + i),
                             <<-2500, -2500, 0, 48500, 48500, 0>>[i])

\* C19: features[121] is the quoted spread and features[124] the quoted total.
C19_TestIndices ==
    (Returned /\ fa.mode = "direct"
        /\ HasQuote(fa.odds, "spreads") /\ HasQuote(fa.odds, "totals"))
    => /\ Slot(fa.res.value, 121).milli = QuotedPoint(fa.odds, "spreads")
       /\ Slot(fa.res.value, 124).milli = QuotedPoint(fa.odds, "totals")

\* C20: two returned vectors agree on every slot outside the market band
\* (Python indices 0..136).
C20_BaselineConstant ==
    (Returned /\ fa.prev # <<>>)
    => \A i \in 0..136 : Slot(fa.res.value, i) = Slot(fa.prev, i)

\* C20 witness: two calls with different inputs returned vectors that differ
\* in the market band
C20_Witness ==
    /\ Returned /\ fa.prev # <<>>
    /\ fa.res.value # fa.prev

\* the number of values appended for each band
ValueBandCounts ==
    <<Len(OffensiveBand), Len(DefensiveBand), Len(RecentFormBand), Len(QbBand),
      Len(RbBand), Len(WrTeBand), Len(OlDlBand), Len(SpecialTeamsBand),
      Len(SituationalBand), Len(WeatherBand), Len(DefaultMarketBand)>>

\* the Python index of a name in FEATURE_NAMES
NameIndex(name) == (CHOOSE i \in 1..Len(FEATURE_NAMES) : FEATURE_NAMES[i] = name) - 1

FirstBookmakerOnly(odds) == <<[odds[1] EXCEPT !.bookmakers = <<@[1]>>]>>

\* C22: the vector depends on the first bookmaker only: it is the vector of
\* the odds cut down to bookmakers[0], a quoted slot holds the point of the
\* first outcome, and without a spreads (totals) market in bookmakers[0]
\* the slot is -3.5 (45.5) whatever a later bookmaker quotes.
C22_FirstBookmakerOnly ==
    (Returned /\ FirstBookmaker(fa.odds))
    => /\ fa.res = extract_features_from_game(fa.game[1], FirstBookmakerOnly(fa.odds))
       /\ HasQuote(fa.odds, "spreads")
          => Slot(fa.res.value, 138).milli = FirstMarket(fa.odds, "spreads").outcomes[1].point
       /\ HasQuote(fa.odds, "totals")
          => Slot(fa.res.value, 141).milli = FirstMarket(fa.odds, "totals").outcomes[1].point
       /\ ~HasMarket(fa.odds, "spreads") => Float32Eq(Slot(fa.res.value, 138), -3500)
       /\ ~HasMarket(fa.odds, "totals") => Float32Eq(Slot(fa.res.value, 141), 45500)

\* C22 witness: the first bookmaker quotes a total only, a second bookmaker
\* quotes a spread
C22_Witness ==
    /\ Returned /\ FirstBookmaker(fa.odds)
    /\ Len(fa.odds[1].bookmakers) = 2
    /\ ~HasMarket(fa.odds, "spreads") /\ HasQuote(fa.odds, "totals")
    /\ \E i \in 1..Len(fa.odds[1].bookmakers[2].markets) :
          fa.odds[1].bookmakers[2].markets[i].key = "spreads"

\* C23: both movement slots are 0 and each opening slot equals its current
\* slot.
C23_NoMovement ==
    Returned
    => /\ Float32Eq(Slot(fa.res.value, 139), 0)
       /\ Float32Eq(Slot(fa.res.value, 142), 0)
       /\ Slot(fa.res.value, 137) = Slot(fa.res.value, 138)
       /\ Slot(fa.res.value, 140) = Slot(fa.res.value, 141)

\* C23 witness: a vector returned for quoted lines that differ from the defaults
C23_Witness ==
    /\ Returned
    /\ HasQuote(fa.odds, "spreads") /\ HasQuote(fa.odds, "totals")
    /\ Slot(fa.res.value, 138).milli # -3500
    /\ Slot(fa.res.value, 141).milli # 45500

\* ============================================================================
\* The request-time caches of two other variants: the read-through cache of
\* beta_platform_old.py (get_cached_odds) and the single-slot cache of
\* track1_render.py (fetch_real_odds).  Both substitute fabricated odds.
\* ============================================================================

\* ODDS_API_KEY: the 'demo-key' default, an empty setting, a real key
ApiKeys == {"demo-key", "", "real-key"}

\* "if ODDS_API_KEY and ODDS_API_KEY != 'demo-key'"
KeyIsReal(k) == k # "" /\ k # "demo-key"

\* the sports the read-through variant's pages ask for
RtSports == {"americanfootball_nfl", "americanfootball_ncaaf"}

\* cache_key = f"odds_{sport}"
cache_key(sport) == <<"odds", sport>>

\* timedelta(minutes=30)
TtlMinutes == 30

\* minutes between two calls
RtElapsed == {10, 30}

\* response.json() of a 200 answer: a list of n game dicts
RtGames(sport, n) == [j \in 1..n |-> [id |-> <<"evt", j>>, sport_key |-> sport]]

\* the sizes of the answers
RtSizes == {0, 1}

\* what requests.get ends in
RtOutcomes ==
    {[kind |-> "ok", n |-> n] : n \in RtSizes}
        \cup {[kind |-> "non200", n |-> 0], [kind |-> "exception", n |-> 0]}

\* generate_mock_odds(sport): four games with ids game_1..game_4; the teams
\* depend on the sport, the prices are random
generate_mock_odds(sport) ==
    [i \in 1..4 |-> [id |-> <<"game", i>>, sport_key |-> sport]]

RtReturn(origin, value) == [origin |-> origin, value |-> value]

\* the module is imported: both dicts are empty
RtStart(key) ==
    [pc |-> "idle", key |-> key, sport |-> "none", odds_cache |-> <<>>,
     cache_timestamp |-> <<>>, now |-> 0, calls |-> 0, requests |-> 0,
     ret |-> RtReturn("none", <<>>)]

\* get_cached_odds(sport) is called d minutes after the previous call
RtCall(sport, d) ==
    /\ rt.pc \in {"idle", "returned"}
    /\ rt.calls < MaxCalls
    /\ rt' = [rt EXCEPT !.pc = "check", !.sport = sport, !.now = @ + d,
                 !.calls = @ + 1, !.requests = 0, !.ret = RtReturn("none", <<>>)]
    /\ UNCHANGED <<web, bp, cacheVars, fa, rn>>

\* variant of the cache check that still serves an entry aged 30 minutes
RtCheckCacheInclusive ==
    /\ rt.pc = "check"
    /\ LET k == cache_key(rt.sport)
       IN IF k \in DOMAIN rt.odds_cache
             /\ rt.now - rt.cache_timestamp[k] <= TtlMinutes
          THEN rt' = [rt EXCEPT !.pc = "returned",
                         !.ret = RtReturn("cache", rt.odds_cache[k])]
          ELSE IF KeyIsReal(rt.key)
          THEN rt' = [rt EXCEPT !.pc = "request"]
          ELSE rt' = [rt EXCEPT !.pc = "returned",
                         !.ret = RtReturn("mock", generate_mock_odds(rt.sport))]
    /\ UNCHANGED <<web, bp, cacheVars, fa, rn>>

\* "Check cache", then "If API key is real, fetch from API", else the mock list
RtCheckCache ==
    /\ rt.pc = "check"
    /\ LET k == cache_key(rt.sport)
       IN IF k \in DOMAIN rt.odds_cache
             /\ rt.now - rt.cache_timestamp[k] < TtlMinutes
          THEN rt' = [rt EXCEPT !.pc = "returned",
                         !.ret = RtReturn("cache", rt.odds_cache[k])]
          ELSE IF KeyIsReal(rt.key)
          THEN rt' = [rt EXCEPT !.pc = "request"]
          ELSE rt' = [rt EXCEPT !.pc = "returned",
                         !.ret = RtReturn("mock", generate_mock_odds(rt.sport))]
    /\ UNCHANGED <<web, bp, cacheVars, fa, rn>>

\* variant of the request that keeps the mock list in odds_cache
RtRequestCachingMock(o) ==
    /\ rt.pc = "request"
    /\ IF o.kind = "ok"
       THEN rt' = [rt EXCEPT !.pc = "stamp", !.requests = @ + 1,
                      !.odds_cache = (cache_key(rt.sport) :> RtGames(rt.sport, o.n)) @@ @,
                      !.ret = RtReturn("none", RtGames(rt.sport, o.n))]
       ELSE rt' = [rt EXCEPT !.pc = "returned", !.requests = @ + 1,
                      !.odds_cache = (cache_key(rt.sport) :> generate_mock_odds(rt.sport)) @@ @,
                      !.ret = RtReturn("mock", generate_mock_odds(rt.sport))]
    /\ UNCHANGED <<web, bp, cacheVars, fa, rn>>

\* requests.get(..., timeout=10): a 200 answer is stored in odds_cache; any
\* other answer and any exception fall through to "Return mock data for demo"
RtRequest(o) ==
    /\ rt.pc = "request"
    /\ IF o.kind = "ok"
       THEN rt' = [rt EXCEPT !.pc = "stamp", !.requests = @ + 1,
                      !.odds_cache = (cache_key(rt.sport) :> RtGames(rt.sport, o.n)) @@ @,
                      !.ret = RtReturn("none", RtGames(rt.sport, o.n))]
       ELSE rt' = [rt EXCEPT !.pc = "returned", !.requests = @ + 1,
                      !.ret = RtReturn("mock", generate_mock_odds(rt.sport))]
    /\ UNCHANGED <<web, bp, cacheVars, fa, rn>>

\* cache_timestamp[cache_key] = datetime.now(); return data
RtStoreTimestamp ==
    /\ rt.pc = "stamp"
    /\ rt' = [rt EXCEPT !.pc = "returned",
                 !.cache_timestamp = (cache_key(rt.sport) :> rt.now) @@ @,
                 !.ret = RtReturn("api", rt.ret.value)]
    /\ UNCHANGED <<web, bp, cacheVars, fa, rn>>

RtNext ==
    \/ \E s \in RtSports, d \in RtElapsed : RtCall(s, d)
    \/ RtCheckCache
    \/ \E o \in RtOutcomes : RtRequest(o)
    \/ RtStoreTimestamp

\* ------------------------------------------------------------ track1_render
\* sport_keys, in the order the loop visits them
RnSportOrder == <<"nfl", "ncaaf", "nba", "mlb">>

\* odds_cache['duration']: 5 minutes
CacheDuration == 300

\* seconds between two calls
RnElapsed == {100, 300}

\* the setting of ODDS_API_KEY: empty, or a key (the default is one)
RnApiKeys == {"", "real-key"}

\* the game_data dicts built from a 200 answer of n games (at most 8 are kept)
RnGames(sport, n) == [j \in 1..n |-> [id |-> <<sport, j - 1>>, teams |-> "Away @ Home"]]

\* the sizes of the answers
RnSizes == {0, 1}

\* what one requests.get and the processing of its answer end in; an
\* exception is a network error or a malformed game dict
RnOutcomes == {[kind |-> "ok", n |-> n] : n \in RnSizes}
                  \cup {[kind |-> "non200", n |-> 0], [kind |-> "exception", n |-> 0]}

\* sports_data before the loop
EmptySportsData == [s \in {"nfl", "nba", "ncaaf", "mlb"} |-> <<>>]

\* generate_mock_data()
generate_mock_data ==
    [nfl |-> <<[id |-> <<"nfl", 0>>, teams |-> "Chiefs @ Bills"]>>,
     ncaaf |-> <<[id |-> <<"ncaaf", 0>>, teams |-> "Alabama @ Georgia"]>>,
     nba |-> <<>>,
     mlb |-> <<>>]

\* the module is imported: odds_cache = {'data': None, 'timestamp': 0, ...}
RnStart(key) ==
    [pc |-> "idle", key |-> key, data |-> <<>>, timestamp |-> 0, now |-> 0,
     current_time |-> 0, offseason |-> FALSE, sports_data |-> EmptySportsData,
     i |-> 1, calls |-> 0, requests |-> 0, ret |-> RtReturn("none", <<>>)]

\* fetch_real_odds() is called d seconds after the previous call:
\* current_time = time.time(), then "Return cached data if still fresh"
RnCall(d, offseason) ==
    /\ rn.pc \in {"idle", "returned"}
    /\ rn.calls < MaxCalls
    /\ LET t == rn.now + d
       IN IF rn.data # <<>> /\ t - rn.timestamp < CacheDuration
          THEN rn' = [rn EXCEPT !.pc = "returned", !.now = t, !.current_time = t,
                         !.calls = @ + 1, !.requests = 0,
                         !.ret = RtReturn("cache", rn.data[1])]
          ELSE rn' = [rn EXCEPT !.pc = "loop", !.now = t, !.current_time = t,
                         !.calls = @ + 1, !.requests = 0, !.offseason = offseason,
                         !.sports_data = EmptySportsData, !.i = 1,
                         !.ret = RtReturn("none", <<>>)]
    /\ UNCHANGED <<web, bp, cacheVars, fa, rt>>

\* after a sport: the next one, or "Update cache" when the loop is over
RnAfterSport(r) ==
    IF r.i < Len(RnSportOrder) THEN [r EXCEPT !.i = @ + 1]
    ELSE [r EXCEPT !.pc = "store"]

\* "Skip MLB in off-season"
RnSkipMlb ==
    /\ rn.pc = "loop"
    /\ RnSportOrder[rn.i] = "mlb" /\ rn.offseason
    /\ rn' = RnAfterSport(rn)
    /\ UNCHANGED <<web, bp, cacheVars, fa, rt>>

\* variant of the loop body that drops the cached data on an exception
RnRequestClearingCache(o) ==
    /\ rn.pc = "loop"
    /\ ~(RnSportOrder[rn.i] = "mlb" /\ rn.offseason)
    /\ o.kind = "ok" => rn.key # ""
    /\ LET sport == RnSportOrder[rn.i]
           asked == [rn EXCEPT !.requests = @ + 1]
       IN CASE o.kind = "ok" ->
                 rn' = RnAfterSport([asked EXCEPT !.sports_data[sport] = RnGames(sport, o.n)])
            [] o.kind = "non200" -> rn' = RnAfterSport(asked)
            [] OTHER ->
                 rn' = [asked EXCEPT !.pc = "returned", !.data = <<>>,
                           !.ret = RtReturn("mock", generate_mock_data)]
    /\ UNCHANGED <<web, bp, cacheVars, fa, rt>>

\* one pass of the loop body: requests.get, and on a 200 answer the game_data
\* dicts appended to sports_data[sport_name]; an exception leaves the
\* function through "Return mock data as fallback"
RnRequest(o) ==
    /\ rn.pc = "loop"
    /\ ~(RnSportOrder[rn.i] = "mlb" /\ rn.offseason)
    /\ o.kind = "ok" => rn.key # ""
    /\ LET sport == RnSportOrder[rn.i]
           asked == [rn EXCEPT !.requests = @ + 1]
       IN CASE o.kind = "ok" ->
                 rn' = RnAfterSport([asked EXCEPT !.sports_data[sport] = RnGames(sport, o.n)])
            [] o.kind = "non200" -> rn' = RnAfterSport(asked)
            [] OTHER ->
                 rn' = [asked EXCEPT !.pc = "returned",
                           !.ret = RtReturn("mock", generate_mock_data)]
    /\ UNCHANGED <<web, bp, cacheVars, fa, rt>>

\* "Update cache", return sports_data
RnStore ==
    /\ rn.pc = "store"
    /\ rn' = [rn EXCEPT !.pc = "returned", !.data = <<rn.sports_data>>,
                 !.timestamp = rn.current_time,
                 !.ret = RtReturn("api", rn.sports_data)]
    /\ UNCHANGED <<web, bp, cacheVars, fa, rt>>

RnNext ==
    \/ \E d \in RnElapsed, m \in BOOLEAN : RnCall(d, m)
    \/ RnSkipMlb
    \/ \E o \in RnOutcomes : RnRequest(o)
    \/ RnStore

\* one of the two variants runs
VariantsInit ==
    /\ SERVER_CACHE = [s \in Sports |-> InitialEntry]
    /\ ML_MODELS = [spread |-> FALSE, adapter |-> FALSE]
    /\ now = 0
    /\ fetchCount = [s \in Sports |-> 0]
    /\ startup = [pc |-> "load", i |-> 1, ok |-> FALSE, entry |-> InitialEntry]
    /\ bg = [pc |-> "not_started", i |-> 1, cycle |-> 0, ok |-> FALSE,
             entry |-> InitialEntry, attempted |-> <<>>, failed |-> FALSE]
    /\ req = IdleReq
    /\ fa = FaOff
    /\ web = WebOff
    /\ bp = BpOff
    /\ \/ (\E k \in ApiKeys : rt = RtStart(k)) /\ rn = RnOff
       \/ rt = RtOff /\ (\E k \in RnApiKeys : rn = RnStart(k))

VariantsNext ==
    \/ RtNext
    \/ RnNext

VariantsSpec == VariantsInit /\ [][VariantsNext]_vars

\* ------------------------------------------------- variants: properties
\* every game dict of a list carries a 'mode' entry
ListHasModeFlag(games) == \A i \in 1..Len(games) : "mode" \in DOMAIN games[i]

\* the dict carries a 'mode' entry
DictHasModeFlag(d) == "mode" \in DOMAIN d

\* the entry of the sport asked for exists and is less than 30 minutes old
RtFresh ==
    /\ cache_key(rt.sport) \in DOMAIN rt.odds_cache
    /\ rt.now - rt.cache_timestamp[cache_key(rt.sport)] < 30

\* C26: get_cached_odds returns the cached list, without an upstream
\* request, exactly when the sport's entry exists and is less than 30 minutes
\* old; otherwise, with a real key, it makes exactly one request, and a 200
\* answer becomes the entry, stamped with the current time.
C26_ReadThrough ==
    [][/\ rt.pc = "check"
          => /\ RtFresh <=> (rt'.pc = "returned" /\ rt'.ret.origin = "cache")
             /\ RtFresh => /\ rt'.ret.value = rt.odds_cache[cache_key(rt.sport)]
                           /\ rt'.requests = 0
             /\ (~RtFresh /\ KeyIsReal(rt.key)) => rt'.pc = "request"
       /\ rt.pc = "request" => rt'.requests = 1
       /\ rt.pc = "stamp" => rt'.requests = 1
       /\ (rt'.pc = "returned" /\ rt'.ret.origin = "api")
          => /\ rt'.requests = 1
             /\ rt'.odds_cache[cache_key(rt.sport)] = rt'.ret.value
             /\ rt'.cache_timestamp[cache_key(rt.sport)] = rt'.now]_vars

\* C26 witness: a second or third call, 40 minutes or more after the start,
\* got a 200 answer with games and stamped the entry with the current time
C26_Witness ==
    /\ rt.pc = "returned" /\ rt.ret.origin = "api" /\ rt.calls >= 2
    /\ rt.now >= 40
    /\ rt.cache_timestamp[cache_key(rt.sport)] = rt.now
    /\ rt.ret.value # <<>>

\* C27: between calls odds_cache and cache_timestamp have the same keys, and
\* the maps change only in a call that got a 200 answer (a call that fails
\* or serves the mock list leaves both as they were).
C27_MapsInStep ==
    /\ [](rt.pc \in {"idle", "returned"}
            => DOMAIN rt.odds_cache = DOMAIN rt.cache_timestamp)
    /\ [][(rt'.odds_cache # rt.odds_cache \/ rt'.cache_timestamp # rt.cache_timestamp)
            => \/ rt'.pc = "stamp"
               \/ rt.pc = "stamp" /\ rt'.ret.origin = "api"]_vars

\* C27 witness: a call served the mock list while an expired entry is cached
C27_Witness ==
    /\ rt.pc = "returned" /\ rt.ret.origin = "mock" /\ KeyIsReal(rt.key)
    /\ cache_key(rt.sport) \in DOMAIN rt.odds_cache
    /\ rt.odds_cache[cache_key(rt.sport)] # <<>>

\* C28: once a result is stored, a call made less than 300 seconds after the
\* stored timestamp returns the stored data without a request; the cached
\* data and timestamp change only when a result is stored, so a call that
\* ends in an exception returns the mock data and leaves them as they were.
C28_RenderCache ==
    [][/\ (rn.pc \in {"idle", "returned"} /\ rn'.calls # rn.calls
              /\ rn.data # <<>> /\ rn'.now - rn.timestamp < 300)
          => /\ rn'.pc = "returned" /\ rn'.ret.origin = "cache"
             /\ rn'.ret.value = rn.data[1]
             /\ rn'.requests = 0
       /\ (rn'.data # rn.data \/ rn'.timestamp # rn.timestamp) => rn.pc = "store"
       /\ (rn.pc = "loop" /\ rn'.pc = "returned")
          => rn'.ret = RtReturn("mock", generate_mock_data)]_vars

\* C28 witness: a call ended in an exception while a stored result is cached
C28_Witness ==
    /\ rn.pc = "returned" /\ rn.ret.origin = "mock"
    /\ rn.data # <<>> /\ rn.data[1]["nfl"] # <<>>

\* C11: mock odds are returned only when no real API key is configured, and
\* a mock result carries a mode flag.
C11_MockOnlyWithoutKey ==
    /\ (rt.pc = "returned" /\ rt.ret.origin = "mock")
       => ~KeyIsReal(rt.key) /\ ListHasModeFlag(rt.ret.value)
    /\ (rn.pc = "returned" /\ rn.ret.origin = "mock")
       => ~KeyIsReal(rn.key) /\ DictHasModeFlag(rn.ret.value)

(***************************************************************************)
(* Accounts and bet ledgers: the users, sessions and bets of               *)
(* beta_platform_old.py and the bet tracking of beta_platform.py.  All     *)
(* handlers are coroutines on one event loop: a handler runs without       *)
(* interruption except where it awaits.                                    *)
(***************************************************************************)

\* ------------------------------------------------------ beta_platform_old
\* valid_codes of register
valid_codes == {"BETA2024", "EARLY2024", "VIP2024"}

\* form and cookie values of the requests
Usernames == {"alice", "bob"}

Passwords == {"pw1", "pw2"}

AccessCodes == {"BETA2024", "FREE2024"}

\* secrets.token_hex(16): a random token, which may repeat
SessionTokens == {"s1", "s2"}

\* request.cookies.get("session_id"): no cookie (None), or a value
SessionCookies == {<<>>} \cup {<<t>> : t \in SessionTokens}

\* hashlib.sha256(password.encode()).hexdigest()
password_hash(password) == <<"sha256", password>>

\* the record of the last response: the request and its status code
WebResponse(op, status, username, password, code, cookie) ==
    [op |-> op, status |-> status, username |-> username, password |-> password,
     code |-> code, cookie |-> cookie]

\* the module is imported: users_db, sessions, user_bets, user_emails empty
WebStart ==
    [pc |-> "idle", users_db |-> <<>>, sessions |-> <<>>, user_bets |-> <<>>,
     user_emails |-> <<>>, pending |-> <<>>,
     last |-> WebResponse("none", 0, "", "", "", <<>>)]

\* variant of register that creates the session before it checks the username
RegisterSessionFirst(username, password, access_code, token) ==
    /\ web.pc # "off"
    /\ IF access_code \notin valid_codes
       THEN web' = [web EXCEPT
                       !.last = WebResponse("register", 400, username, password,
                                            access_code, <<>>)]
       ELSE IF username \in DOMAIN web.users_db
       THEN web' = [web EXCEPT
                       !.sessions = (token :> username) @@ @,
                       !.last = WebResponse("register", 400, username, password,
                                            access_code, <<>>)]
       ELSE web' = [web EXCEPT
                       !.users_db = (username :> [password_hash |-> password_hash(password),
                                                  access_code |-> access_code]) @@ @,
                       !.user_emails = IF @ = <<>> THEN <<"user@example.com">> ELSE @,
                       !.sessions = (token :> username) @@ @,
                       !.last = WebResponse("register", 303, username, password,
                                            access_code, <<token>>)]
    /\ UNCHANGED <<cacheVars, fa, rt, rn, bp>>

\* POST /register: 400 for an invalid access code or a taken username;
\* otherwise the user is stored, the email is kept once, a session is
\* created and the response redirects with the session cookie
Register(username, password, access_code, token) ==
    /\ web.pc # "off"
    /\ IF access_code \notin valid_codes \/ username \in DOMAIN web.users_db
       THEN web' = [web EXCEPT
                       !.last = WebResponse("register", 400, username, password,
                                            access_code, <<>>)]
       ELSE web' = [web EXCEPT
                       !.users_db = (username :> [password_hash |-> password_hash(password),
                                                  access_code |-> access_code]) @@ @,
                       !.user_emails = IF @ = <<>> THEN <<"user@example.com">> ELSE @,
                       !.sessions = (token :> username) @@ @,
                       !.last = WebResponse("register", 303, username, password,
                                            access_code, <<token>>)]
    /\ UNCHANGED <<cacheVars, fa, rt, rn, bp>>

\* POST /login: 400 for an unknown username or a wrong password; otherwise
\* a session is created
Login(username, password, token) ==
    /\ web.pc # "off"
    /\ IF username \notin DOMAIN web.users_db
       THEN web' = [web EXCEPT
                       !.last = WebResponse("login", 400, username, password, "", <<>>)]
       ELSE IF web.users_db[username].password_hash # password_hash(password)
       THEN web' = [web EXCEPT
                       !.last = WebResponse("login", 400, username, password, "", <<>>)]
       ELSE web' = [web EXCEPT
                       !.sessions = (token :> username) @@ @,
                       !.last = WebResponse("login", 303, username, password, "",
                                            <<token>>)]
    /\ UNCHANGED <<cacheVars, fa, rt, rn, bp>>

\* the session cookie names a session
ValidSession(cookie) == cookie # <<>> /\ cookie[1] \in DOMAIN web.sessions

\* GET /dashboard: a redirect to /login without a valid session, the page of
\* sessions[session_id] otherwise (the page is built from get_cached_odds,
\* whose state is rt)
Dashboard(cookie) ==
    /\ web.pc # "off"
    /\ IF ~ValidSession(cookie)
       THEN web' = [web EXCEPT
                       !.last = WebResponse("dashboard", 303, "", "", "", cookie)]
       ELSE web' = [web EXCEPT
                       !.last = WebResponse("dashboard", 200, web.sessions[cookie[1]],
                                            "", "", cookie)]
    /\ UNCHANGED <<cacheVars, fa, rt, rn, bp>>

\* the number of bets stored for all users
StoredBets ==
    Cardinality(UNION {{<<u, i>> : i \in 1..Len(web.user_bets[u])} :
                          u \in DOMAIN web.user_bets})

\* POST /api/place-bet, up to "data = await request.json()": 401 without a
\* valid session, otherwise the handler waits for the body
PlaceBetAuthenticate(cookie) ==
    /\ web.pc = "idle"
    /\ StoredBets < MaxBets
    /\ IF ~ValidSession(cookie)
       THEN web' = [web EXCEPT
                       !.last = WebResponse("place_bet", 401, "", "", "", cookie)]
       ELSE web' = [web EXCEPT !.pc = "json", !.pending = cookie]
    /\ UNCHANGED <<cacheVars, fa, rt, rn, bp>>

\* POST /api/place-bet, after the await: username = sessions[session_id] and
\* the bet is appended to user_bets[username]
PlaceBetStore(game_id) ==
    /\ web.pc = "json"
    /\ LET username == web.sessions[web.pending[1]]
           bets == IF username \in DOMAIN web.user_bets
                   THEN web.user_bets[username] ELSE <<>>
           bet == [game_id |-> game_id, bet_type |-> "spread", status |-> "pending"]
       IN web' = [web EXCEPT
                     !.pc = "idle", !.pending = <<>>,
                     !.user_bets = (username :> Append(bets, bet)) @@ @,
                     !.last = WebResponse("place_bet", 200, username, "", "",
                                          web.pending)]
    /\ UNCHANGED <<cacheVars, fa, rt, rn, bp>>

WebNext ==
    \/ \E u \in Usernames, p \in Passwords, c \in AccessCodes, t \in SessionTokens :
          Register(u, p, c, t)
    \/ \E u \in Usernames, p \in Passwords, t \in SessionTokens : Login(u, p, t)
    \/ \E c \in SessionCookies : Dashboard(c)
    \/ \E c \in SessionCookies : PlaceBetAuthenticate(c)
    \/ \E g \in {"g1", "g2"} : PlaceBetStore(g)

\* ---------------------------------------------------------- beta_platform
\* access codes register_beta may draw (random, so a code may repeat), and a
\* code nobody was given
BetaCodes == {"A1000-B2000", "C3000-D4000"}

UnregisteredCode == "Z9999-Z9999"

\* the 'odds' strings of the requests: whether the string starts with '+',
\* and what int() makes of its digits (<<>>: ValueError)
OddsInputs ==
    {[text |-> "+150", plus |-> TRUE, int |-> <<150>>],
     [text |-> "-110", plus |-> FALSE, int |-> <<-110>>],
     [text |-> "even", plus |-> FALSE, int |-> <<>>]}

\* the JSON bodies of the add_bet requests
BetRequests == [code : BetaCodes \cup {UnregisteredCode}, odds : OddsInputs, stake : {10}]

\* decimal_odds in thousandths: 1 + int(odds[1:]) / 100 for '+...',
\* 1 + 100 / abs(int(odds)) otherwise
decimal_odds(odds) ==
    IF odds.int = <<>> THEN [raised |-> TRUE, value |-> 0]
    ELSE IF odds.plus THEN [raised |-> FALSE, value |-> 1000 + odds.int[1] * 10]
    ELSE IF odds.int[1] = 0 THEN [raised |-> TRUE, value |-> 0]
    ELSE [raised |-> FALSE,
          value |-> 1000 + (100000 \div (IF odds.int[1] < 0 THEN 0 - odds.int[1]
                                          ELSE odds.int[1]))]

\* the record of the last response of add_bet or register_beta; waiting is
\* the number of add_bet requests that were still awaiting their body
BpResponse(op, status, code, bet_id, waiting) ==
    [op |-> op, status |-> status, code |-> code, bet_id |-> bet_id, waiting |-> waiting]

\* the module is imported: beta_users = {}
BpStart ==
    [pc |-> "idle", beta_users |-> <<>>, pending |-> <<>>,
     last |-> BpResponse("none", 0, "", 0, 0)]

\* POST /api/beta/register: beta_users[code] = {registration..., "code": code}
\* under a random code
RegisterBeta(code) ==
    /\ bp.pc # "off"
    /\ bp' = [bp EXCEPT !.beta_users = (code :> [code |-> code]) @@ @,
                 !.last = BpResponse("register_beta", 200, code, 0, Len(bp.pending))]
    /\ UNCHANGED <<cacheVars, fa, rt, rn, web>>

\* the bets list of a user dict: beta_users[code].get('bets', [])
BetsOf(users, code) ==
    IF code \in DOMAIN users /\ "bets" \in DOMAIN users[code]
    THEN users[code].bets ELSE <<>>

\* POST /api/bets/add, up to "data = await request.json()": the request
\* waits for its body with the others
AddBetReceive(data) ==
    /\ bp.pc # "off"
    /\ Len(bp.pending) < MaxPending
    /\ Len(BetsOf(bp.beta_users, data.code))
          + Cardinality({i \in 1..Len(bp.pending) : bp.pending[i].code = data.code})
          < MaxBets
    /\ bp' = [bp EXCEPT !.pending = Append(@, data)]
    /\ UNCHANGED <<cacheVars, fa, rt, rn, web>>

\* a sequence without its i-th element
RemoveAt(seq, i) == SubSeq(seq, 1, i - 1) \o SubSeq(seq, i + 1, Len(seq))

\* the user dict once "if 'bets' not in beta_users[code]" has run
WithBets(user) ==
    IF "bets" \in DOMAIN user THEN user ELSE [code |-> user.code, bets |-> <<>>]

\* variant of add_bet that numbers the bets from 0
AddBetHandleZeroBased(i) ==
    /\ bp.pc # "off"
    /\ i \in 1..Len(bp.pending)
    /\ LET data == bp.pending[i]
           code == data.code
           rest == RemoveAt(bp.pending, i)
           parsed == decimal_odds(data.odds)
       IN IF code \notin DOMAIN bp.beta_users
          THEN bp' = [bp EXCEPT !.pending = rest,
                         !.last = BpResponse("add_bet", 403, code, 0, Len(rest))]
          ELSE IF parsed.raised
          THEN bp' = [bp EXCEPT !.pending = rest,
                         !.beta_users[code] = WithBets(@),
                         !.last = BpResponse("add_bet", 500, code, 0, Len(rest))]
          ELSE LET user == WithBets(bp.beta_users[code])
                   bet == [id |-> Len(user.bets), odds |-> data.odds.text,
                           stake |-> data.stake, status |-> "pending",
                           potential_payout |-> data.stake * parsed.value,
                           profit_loss |-> 0]
               IN bp' = [bp EXCEPT !.pending = rest,
                            !.beta_users[code] = [user EXCEPT !.bets = Append(@, bet)],
                            !.last = BpResponse("add_bet", 200, code, bet.id, Len(rest))]
    /\ UNCHANGED <<cacheVars, fa, rt, rn, web>>

\* POST /api/bets/add, after the await, for the i-th waiting request: 403
\* for an unregistered code; the bets list is created when missing; the odds
\* are parsed (an unparsable string ends the request with a 500); the bet
\* gets id len(bets) + 1 and is appended
AddBetHandle(i) ==
    /\ bp.pc # "off"
    /\ i \in 1..Len(bp.pending)
    /\ LET data == bp.pending[i]
           code == data.code
           rest == RemoveAt(bp.pending, i)
           parsed == decimal_odds(data.odds)
       IN IF code \notin DOMAIN bp.beta_users
          THEN bp' = [bp EXCEPT !.pending = rest,
                         !.last = BpResponse("add_bet", 403, code, 0, Len(rest))]
          ELSE IF parsed.raised
          THEN bp' = [bp EXCEPT !.pending = rest,
                         !.beta_users[code] = WithBets(@),
                         !.last = BpResponse("add_bet", 500, code, 0, Len(rest))]
          ELSE LET user == WithBets(bp.beta_users[code])
                   bet == [id |-> Len(user.bets) + 1, odds |-> data.odds.text,
                           stake |-> data.stake, status |-> "pending",
                           potential_payout |-> data.stake * parsed.value,
                           profit_loss |-> 0]
               IN bp' = [bp EXCEPT !.pending = rest,
                            !.beta_users[code] = [user EXCEPT !.bets = Append(@, bet)],
                            !.last = BpResponse("add_bet", 200, code, bet.id, Len(rest))]
    /\ UNCHANGED <<cacheVars, fa, rt, rn, web>>

\* GET /api/bets/{code}: 403 for an unregistered code, the bets otherwise
get_user_bets(users, code) ==
    IF code \notin DOMAIN users THEN [status |-> 403, value |-> <<>>]
    ELSE [status |-> 200, value |-> BetsOf(users, code)]

BpNext ==
    \/ \E c \in BetaCodes : RegisterBeta(c)
    \/ \E d \in BetRequests : AddBetReceive(d)
    \/ \E i \in 1..MaxPending : AddBetHandle(i)

\* one of the two programs runs
AccountsInit ==
    /\ SERVER_CACHE = [s \in Sports |-> InitialEntry]
    /\ ML_MODELS = [spread |-> FALSE, adapter |-> FALSE]
    /\ now = 0
    /\ fetchCount = [s \in Sports |-> 0]
    /\ startup = [pc |-> "load", i |-> 1, ok |-> FALSE, entry |-> InitialEntry]
    /\ bg = [pc |-> "not_started", i |-> 1, cycle |-> 0, ok |-> FALSE,
             entry |-> InitialEntry, attempted |-> <<>>, failed |-> FALSE]
    /\ req = IdleReq
    /\ fa = FaOff
    /\ rt = RtOff
    /\ rn = RnOff
    /\ \/ web = WebStart /\ bp = BpOff
       \/ web = WebOff /\ bp = BpStart

AccountsNext ==
    \/ WebNext
    \/ BpNext

AccountsSpec == AccountsInit /\ [][AccountsNext]_vars

\* ------------------------------------------------- accounts: properties
\* C29: every session belongs to a user of users_db; register answers 400
\* exactly for an invalid access code or a taken username, login answers 400
\* exactly for an unknown username or a wrong password, and a 400 leaves
\* users_db and sessions as they were; place-bet answers 401 exactly without
\* a valid session, and a 401 leaves user_bets as it was.
C29_SessionsAndRejections ==
    /\ [](\A sid \in DOMAIN web.sessions : web.sessions[sid] \in DOMAIN web.users_db)
    /\ [][web'.last # web.last
            => LET r == web'.last
               IN /\ r.op = "register"
                     => ((r.code \notin {"BETA2024", "EARLY2024", "VIP2024"}
                             \/ r.username \in DOMAIN web.users_db)
                         <=> r.status = 400)
                  /\ r.op = "login"
                     => ((r.username \notin DOMAIN web.users_db
                             \/ web.users_db[r.username].password_hash
                                   # <<"sha256", r.password>>)
                         <=> r.status = 400)
                  /\ r.status = 400
                     => /\ web'.users_db = web.users_db
                        /\ web'.sessions = web.sessions
                  /\ r.op = "place_bet"
                     => ((r.cookie = <<>> \/ r.cookie[1] \notin DOMAIN web.sessions)
                         <=> r.status = 401)
                  /\ r.status = 401 => web'.user_bets = web.user_bets]_vars

\* C29 witness: a login with a wrong password was rejected while a session
\* and a stored bet exist
C29_Witness ==
    /\ web.last.op = "login" /\ web.last.status = 400
    /\ web.last.username \in DOMAIN web.users_db
    /\ web.sessions # <<>>
    /\ web.user_bets # <<>>

\* C30: the bets of every access code are numbered 1, 2, ... in the order
\* they were appended; an add_bet answers 403 exactly for an unregistered
\* code; an accepted add_bet appends one bet, numbered one more than the
\* bets already there, to its own code only; any other add_bet changes no
\* bets.
C30_BetIds ==
    /\ [](\A c \in DOMAIN bp.beta_users :
             \A i \in 1..Len(get_user_bets(bp.beta_users, c).value) :
                get_user_bets(bp.beta_users, c).value[i].id = i)
    /\ [][Len(bp'.pending) < Len(bp.pending)
            => LET r == bp'.last
                   before == BetsOf(bp.beta_users, r.code)
                   after == BetsOf(bp'.beta_users, r.code)
               IN /\ r.op = "add_bet"
                  /\ r.code \notin DOMAIN bp.beta_users <=> r.status = 403
                  /\ \A c \in DOMAIN bp'.beta_users \cup DOMAIN bp.beta_users :
                        (c # r.code \/ r.status # 200)
                        => BetsOf(bp'.beta_users, c) = BetsOf(bp.beta_users, c)
                  /\ r.status = 200
                     => /\ Len(after) = Len(before) + 1
                        /\ SubSeq(after, 1, Len(before)) = before
                        /\ after[Len(after)].id = Len(before) + 1
                        /\ r.bet_id = Len(before) + 1]_vars

\* C30 witness: of two requests waiting for the same code one was accepted
\* as bet 1 while the other still waits
C30_Witness ==
    /\ bp.last.op = "add_bet" /\ bp.last.status = 200 /\ bp.last.bet_id = 1
    /\ bp.last.waiting = 1
    /\ Len(bp.pending) = 1 /\ bp.pending[1].code = bp.last.code
    /\ Len(BetsOf(bp.beta_users, bp.last.code)) = 1
====
